---- MODULE Spec2Model ----
(***************************************************************************)
(* Widevine CDM of vinetrimmer: the orchestrator (utils/Widevine/cdm.py),  *)
(* the Session (session.py), the Key (key.py) and the Local and Remote     *)
(* devices (device.py).  Cryptography is symbolic: a digest, a ciphertext  *)
(* or a signature is the record of what it was computed from, so two of    *)
(* them are equal exactly when their inputs are.                           *)
(***************************************************************************)
EXTENDS Integers, Sequences, FiniteSets, TLC

VARIABLES
    device,          \* Cdm.device: the configured LocalDevice or RemoteDevice
    sessions,        \* Cdm.sessions: dict session_id -> Session
    api_session_id,  \* RemoteDevice.api_session_id
    proxy,           \* the remote CDM API: handle -> what GetChallenge was asked for
    sent,            \* per open session: the request messages (Local) or the
                     \* handles (Remote) its challenges were handed out with
    accepted,        \* per open session: the responses parse_license returned True for
    calls,           \* number of API calls made so far
    last,            \* the last API call: operation, arguments, outcome
    pc,              \* per caller thread: the Cdm method it is inside of, and
                     \* the outcome of the call it made last
    prv              \* the provision command (commands/wvd.py): where it is, its
                     \* local variables and the file it has written

vars == <<device, sessions, api_session_id, proxy, sent, accepted, calls, last, pc,
          prv>>

----------------------------------------------------------------------------
(* Bounds of the model. *)

\* API calls per behaviour
MaxCalls == 4
\* caller threads sharing one Cdm
MaxThreads == 2
\* the latest second the clock shows
MaxTime == 1

----------------------------------------------------------------------------
(* Values. *)

\* Python's None, and an attribute that was never assigned
None == [none |-> TRUE]
Unset == [unset |-> TRUE]

\* outcomes of the random number generator used for session ids
RandomIds == {1, 2}
\* random.randrange(1, 2 ** 31), abstracted to two values
Nonces == {1, 2}
\* get_random_bytes(16) for the privacy key and iv
RandomBytes16 == {"rb1"}

\* PSSH boxes callers open sessions with: (pssh, raw, offline)
OpenInputs ==
    { [pssh |-> "pssh1", raw |-> FALSE, offline |-> FALSE],
      [pssh |-> "pssh2", raw |-> TRUE, offline |-> TRUE] }

\* the box a caller passes that is empty (falsy in Python)
EmptyPssh == ""

\* a box that is not a PSSH box: base64 text that does not decode, or bytes
\* Box.parse or ParseFromString rejects
MalformedPssh == "notabox"

\* what a caller may pass to open
OpenArgs ==
    OpenInputs \cup { [pssh |-> EmptyPssh, raw |-> FALSE, offline |-> FALSE],
                      [pssh |-> MalformedPssh, raw |-> FALSE, offline |-> FALSE] }

----------------------------------------------------------------------------
(* Devices (device.py).  The configuration is loaded before the Cdm is     *)
(* built.                                                                  *)

LocalDevice(type, send_key_control_nonce) ==
    [ kind |-> "Local", type |-> type, security_level |-> 3,
      flags |-> [send_key_control_nonce |-> send_key_control_nonce],
      private_key |-> "device_rsa",
      client_id |-> [ClientIdentification |-> "client_id_blob"] ]

RemoteDevice(type) ==
    [ kind |-> "Remote", type |-> type, system_id |-> 4464, security_level |-> 3,
      name |-> "remote", host |-> "https://cdm.api", key |-> "token",
      device |-> "profile" ]

\* the LocalDevice loaded from a device file whose client_id_len is 0:
\* ParseFromString(b"") leaves an empty ClientIdentification message
LocalDeviceWithoutClientId ==
    [LocalDevice("CHROME", FALSE) EXCEPT !.client_id = [ClientIdentification |-> ""]]

\* the devices a Cdm is configured with in this model
Devices ==
    { LocalDevice("CHROME", FALSE), LocalDevice("ANDROID", TRUE), RemoteDevice("CHROME"),
      LocalDeviceWithoutClientId }

\* bool(x) of a protobuf message or of an RsaKey: they define neither
\* __bool__ nor __len__, so every such object is true
Truthy(message) == TRUE

IsLocal == device.kind = "Local"
IsRemote == device.kind = "Remote"

----------------------------------------------------------------------------
(* Cdm.create_session_id: the id made from one outcome r of the RNG.       *)

create_session_id(dev, r) ==
    IF dev.type = "ANDROID"
    THEN [hex |-> r, counter |-> "01"]
    ELSE [bytes |-> r]

\* every id some call of create_session_id can return for the device
SessionIds == { create_session_id(device, r) : r \in RandomIds }

is_session_open(session_id) == session_id \in DOMAIN sessions

----------------------------------------------------------------------------
(* Session.__init__ (session.py).  license_request is only annotated, it   *)
(* is not assigned: the attribute does not exist on a new Session.         *)

\* Session.parse_pssh_box: the header, or the exception of b64decode,
\* Box.parse or ParseFromString
parse_pssh_box(pssh) ==
    IF pssh = MalformedPssh
    THEN [ok |-> FALSE]
    ELSE [ok |-> TRUE, cenc_header |-> [WidevineCencHeader |-> pssh]]

\* mutant of Session: the pssh is not checked before it is used
Session_Unchecked(session_id, pssh, raw, offline) ==
    [ error |-> "OK",
      session |->
        [ session_id |-> session_id,
          pssh |-> pssh,
          cenc_header |-> [bytes |-> pssh],
          offline |-> offline,
          raw |-> raw,
          session_key |-> None,
          derived_keys |-> [enc |-> None, auth_1 |-> None, auth_2 |-> None],
          license_request |-> Unset,
          signed_license |-> None,
          signed_device_certificate |-> None,
          privacy_mode |-> FALSE,
          keys |-> <<>> ] ]

Session(session_id, pssh, raw, offline) ==
    IF session_id = None \/ pssh = EmptyPssh
    THEN [error |-> "InvalidInput"]
    ELSE IF ~raw /\ ~parse_pssh_box(pssh).ok
    THEN [error |-> "ParseError"]
    ELSE [ error |-> "OK",
           session |->
             [ session_id |-> session_id,
               pssh |-> pssh,
               cenc_header |-> IF raw THEN [bytes |-> pssh]
                                      ELSE parse_pssh_box(pssh).cenc_header,
               offline |-> offline,
               raw |-> raw,
               session_key |-> None,
               derived_keys |-> [enc |-> None, auth_1 |-> None, auth_2 |-> None],
               license_request |-> Unset,
               signed_license |-> None,
               signed_device_certificate |-> None,
               privacy_mode |-> FALSE,
               keys |-> <<>> ] ]

----------------------------------------------------------------------------
(* Byte strings and cryptographic primitives.  A byte string is a sequence *)
(* of atoms: a literal byte, or the serialization of one protobuf message. *)

Byte(n) == [byte |-> n]
Bytes(ints) == [x \in 1..Len(ints) |-> Byte(ints[x])]

\* message.SerializeToString()
SerializeToString(msg) == <<[pb |-> msg]>>

\* b"ENCRYPTION" and b"AUTHENTICATION"
ENCRYPTION == Bytes(<<69, 78, 67, 82, 89, 80, 84, 73, 79, 78>>)
AUTHENTICATION == Bytes(<<65, 85, 84, 72, 69, 78, 84, 73, 67, 65, 84, 73, 79, 78>>)

\* CMAC.new(k, ciphermod=AES).update(data).digest(): one 16-byte block
CMAC(k, data) == [cmac |-> k, data |-> data]

\* HMAC.new(key, digestmod=SHA256).update(data).digest()
HMAC(key, data) == [hmac |-> key, data |-> data, corrupted |-> FALSE]

\* pss.new(private_key).sign(SHA1.new(data))
pss_sign(private_key, data) == [pss |-> private_key, sha1 |-> data]

\* the public half of an RSA private key
PublicKey(private_key) == [public_of |-> private_key]

\* PKCS1_OAEP.new(public_key).encrypt(plain)
OAEP_encrypt(public_key, plain) == [oaep |-> public_key, plain |-> plain]

\* PKCS1_OAEP.new(private_key).decrypt(wrapped): fails under another key
OAEP_decrypt(private_key, wrapped) ==
    IF wrapped.oaep = PublicKey(private_key)
    THEN [ok |-> TRUE, plain |-> wrapped.plain]
    ELSE [ok |-> FALSE]

\* AES.new(k, AES.MODE_CBC, iv).encrypt(data); padded says whether data was
\* CPadding.pad(plain, 16) or the bare plain text
AES_CBC_encrypt(k, iv, plain, padded) ==
    [aes |-> k, iv |-> iv, plain |-> plain, padded |-> padded]

\* CPadding.unpad(AES.new(k, AES.MODE_CBC, iv).decrypt(data), 16): under the
\* wrong key, or with data that was never padded, unpad raises ValueError; a
\* wrong iv garbles the first block only and unpad succeeds
AES_CBC_decrypt_unpad(k, iv, data) ==
    IF data.aes = k /\ data.padded
    THEN [ok |-> TRUE,
          plain |-> IF data.iv = iv THEN data.plain ELSE "garbled"]
    ELSE [ok |-> FALSE]

----------------------------------------------------------------------------
(* generate_derived_keys (commands/wvd.py): the KDF as the provisioning    *)
(* flow and the license server compute it.                                 *)

generate_derived_keys(msg, key) ==
    LET enc_key_base == ENCRYPTION \o Bytes(<<0>>) \o msg \o Bytes(<<0, 0, 0, 128>>)
        auth_key_base == AUTHENTICATION \o Bytes(<<0>>) \o msg \o Bytes(<<0, 0, 2, 0>>)
        enc_cmac_key == CMAC(key, Bytes(<<1>>) \o enc_key_base)
        auth_cmac_key_1 == CMAC(key, Bytes(<<1>>) \o auth_key_base)
        auth_cmac_key_2 == CMAC(key, Bytes(<<2>>) \o auth_key_base)
        auth_cmac_key_3 == CMAC(key, Bytes(<<3>>) \o auth_key_base)
        auth_cmac_key_4 == CMAC(key, Bytes(<<4>>) \o auth_key_base)
    IN  [ enc |-> <<enc_cmac_key>>,
          auth_1 |-> <<auth_cmac_key_1, auth_cmac_key_2>>,
          auth_2 |-> <<auth_cmac_key_3, auth_cmac_key_4>> ]

\* mutant of get_auth_keys: the counter byte follows the base
get_auth_keys_CounterLast(i, k, b) ==
    [x \in 1..Len(i) |-> CMAC(k, b \o Bytes(<<i[x]>>))]

\* get_auth_keys inside LocalDevice.parse_license: i is the tuple of counters
get_auth_keys(i, k, b) ==
    [x \in 1..Len(i) |-> CMAC(k, Bytes(<<i[x]>>) \o b)]

----------------------------------------------------------------------------
(* Service certificates a caller may pass: the bytes, by what decoding     *)
(* finds in them.                                                          *)

CertificateBytes(ServiceId, SerialNumber) ==
    [ SignedMessage |-> TRUE,
      Msg |-> [ SignedDeviceCertificate |-> TRUE,
                _DeviceCertificate |->
                  [ ServiceId |-> ServiceId, SerialNumber |-> SerialNumber,
                    PublicKey |-> PublicKey(ServiceId) ] ] ]

Certificates ==
    { CertificateBytes("license.widevine.com", "serial1"),
      CertificateBytes("service2", "serial2"),
      [SignedMessage |-> FALSE],
      [SignedMessage |-> TRUE, Msg |-> [SignedDeviceCertificate |-> FALSE]] }

\* whether both ParseFromString calls of set_service_certificate succeed
Decodes(certificate) ==
    certificate.SignedMessage /\ certificate.Msg.SignedDeviceCertificate

----------------------------------------------------------------------------
(* LocalDevice (device.py).  Each operation returns the outcome (error),   *)
(* the Session as the call leaves it, and the value returned.              *)

\* mutant of LocalDevice_set_service_certificate: privacy_mode is set before
\* the certificate is decoded
LocalDevice_set_service_certificate_Early(session, certificate) ==
    IF ~Decodes(certificate)
    THEN [error |-> "MalformedCertificate",
          session |-> [session EXCEPT !.privacy_mode = TRUE], ret |-> None]
    ELSE [ error |-> "OK",
           session |->
             [session EXCEPT
                !.signed_device_certificate =
                    [_DeviceCertificate |-> certificate.Msg._DeviceCertificate],
                !.privacy_mode = TRUE],
           ret |-> [bool |-> TRUE] ]

\* mutant of LocalDevice_set_service_certificate: privacy_mode is set and the
\* decoded certificate is not stored
LocalDevice_set_service_certificate_ModeOnly(session, certificate) ==
    IF ~Decodes(certificate)
    THEN [error |-> "MalformedCertificate", session |-> session, ret |-> None]
    ELSE [ error |-> "OK",
           session |-> [session EXCEPT !.privacy_mode = TRUE],
           ret |-> [bool |-> TRUE] ]

LocalDevice_set_service_certificate(session, certificate) ==
    IF ~certificate.SignedMessage
    THEN [error |-> "MalformedCertificate", session |-> session, ret |-> None]
    ELSE IF ~certificate.Msg.SignedDeviceCertificate
    THEN [error |-> "MalformedCertificate", session |-> session, ret |-> None]
    ELSE [ error |-> "OK",
           session |->
             [session EXCEPT
                !.signed_device_certificate =
                    [_DeviceCertificate |-> certificate.Msg._DeviceCertificate],
                !.privacy_mode = TRUE],
           ret |-> [bool |-> TRUE] ]

\* the client identification of a request in privacy mode
EncryptedClientIdentification(dev, session, cid_aes_key, cid_iv) ==
    [ ServiceId |-> session.signed_device_certificate._DeviceCertificate.ServiceId,
      ServiceCertificateSerialNumber |->
          session.signed_device_certificate._DeviceCertificate.SerialNumber,
      EncryptedClientId |->
          AES_CBC_encrypt(cid_aes_key, cid_iv, SerializeToString(dev.client_id), TRUE),
      EncryptedClientIdIv |-> cid_iv,
      EncryptedPrivacyKey |->
          OAEP_encrypt(session.signed_device_certificate._DeviceCertificate.PublicKey,
                       cid_aes_key) ]

\* mutant of ClientIdFields: the plaintext blob is attached in privacy mode too
ClientIdFields_Both(dev, session, cid_aes_key, cid_iv) ==
    [ ClientId |-> dev.client_id,
      EncryptedClientId |->
          IF session.privacy_mode
          THEN EncryptedClientIdentification(dev, session, cid_aes_key, cid_iv)
          ELSE None ]

\* which identification the request carries (device.py 215-237)
ClientIdFields(dev, session, cid_aes_key, cid_iv) ==
    IF session.privacy_mode
    THEN [ ClientId |-> None,
           EncryptedClientId |->
               EncryptedClientIdentification(dev, session, cid_aes_key, cid_iv) ]
    ELSE [ ClientId |-> dev.client_id, EncryptedClientId |-> None ]

\* mutant of LicenseRequestMsg: the offline flag is not looked at
LicenseRequestMsg_AlwaysDefault(dev, session, time, nonce, cid_aes_key, cid_iv) ==
    LET cid == ClientIdFields(dev, session, cid_aes_key, cid_iv)
    IN  [ ContentId |->
            [CencId |-> [ Pssh |-> session.cenc_header,
                          LicenseType |-> "DEFAULT",
                          RequestId |-> session.session_id ]],
          Type |-> "NEW",
          RequestTime |-> time,
          ProtocolVersion |-> "VERSION_2_1",
          KeyControlNonce |-> IF dev.flags.send_key_control_nonce THEN nonce ELSE 0,
          ClientId |-> cid.ClientId,
          EncryptedClientId |-> cid.EncryptedClientId ]

\* LicenseRequest.Msg as get_license_challenge fills it in
LicenseRequestMsg(dev, session, time, nonce, cid_aes_key, cid_iv) ==
    LET cid == ClientIdFields(dev, session, cid_aes_key, cid_iv)
    IN  [ ContentId |->
            [CencId |-> [ Pssh |-> session.cenc_header,
                          LicenseType |-> IF session.offline THEN "OFFLINE" ELSE "DEFAULT",
                          RequestId |-> session.session_id ]],
          Type |-> "NEW",
          RequestTime |-> time,
          ProtocolVersion |-> "VERSION_2_1",
          KeyControlNonce |-> IF dev.flags.send_key_control_nonce THEN nonce ELSE 0,
          ClientId |-> cid.ClientId,
          EncryptedClientId |-> cid.EncryptedClientId ]

\* mutant of StoreRequest: a request already stored is kept
StoreRequest_KeepFirst(session, license_request) ==
    IF session.license_request = Unset
    THEN [session EXCEPT !.license_request = license_request]
    ELSE session

\* session.license_request = license_request (device.py 243)
StoreRequest(session, license_request) ==
    [session EXCEPT !.license_request = license_request]

\* mutant of LocalDevice_get_license_challenge: the signature is computed
\* before the client identification is attached to the message
LocalDevice_get_license_challenge_SignedEarly(dev, session, time, nonce, cid_aes_key, cid_iv) ==
    IF ~Truthy(dev.client_id) \/ ~Truthy(dev.private_key)
    THEN [error |-> "MissingCredential", session |-> session, ret |-> None]
    ELSE IF session.privacy_mode /\ session.signed_device_certificate = None
    THEN [error |-> "MissingCertificate", session |-> session, ret |-> None]
    ELSE
      LET Msg == LicenseRequestMsg(dev, session, time, nonce, cid_aes_key, cid_iv)
          unidentified == [Msg EXCEPT !.ClientId = None, !.EncryptedClientId = None]
          license_request ==
            [ message |-> IF session.raw THEN "SignedLicenseRequestRaw"
                                         ELSE "SignedLicenseRequest",
              Type |-> "LICENSE_REQUEST",
              Msg |-> Msg,
              Signature |-> pss_sign(dev.private_key, SerializeToString(unidentified)) ]
          stored == StoreRequest(session, license_request)
      IN  [ error |-> "OK", session |-> stored,
            ret |-> [bytes |-> SerializeToString(stored.license_request)] ]

LocalDevice_get_license_challenge(dev, session, time, nonce, cid_aes_key, cid_iv) ==
    IF ~Truthy(dev.client_id) \/ ~Truthy(dev.private_key)
    THEN [error |-> "MissingCredential", session |-> session, ret |-> None]
    ELSE IF session.privacy_mode /\ session.signed_device_certificate = None
    THEN [error |-> "MissingCertificate", session |-> session, ret |-> None]
    ELSE
      LET Msg == LicenseRequestMsg(dev, session, time, nonce, cid_aes_key, cid_iv)
          license_request ==
            [ message |-> IF session.raw THEN "SignedLicenseRequestRaw"
                                         ELSE "SignedLicenseRequest",
              Type |-> "LICENSE_REQUEST",
              Msg |-> Msg,
              Signature |-> pss_sign(dev.private_key, SerializeToString(Msg)) ]
          stored == StoreRequest(session, license_request)
      IN  [ error |-> "OK", session |-> stored,
            ret |-> [bytes |-> SerializeToString(stored.license_request)] ]

\* Key.__init__ (key.py)
Key(kid, key_type, key, permissions) ==
    [kid |-> kid, type |-> key_type, key |-> key, permissions |-> permissions]

\* mutant of Key__eq__: Keys are compared by their kid
Key__eq__ByKid(a, b) == a.kid = b.kid

\* a == b on two Key objects, each given as [ref |-> where the object is
\* held, kid, type, key, permissions]: class Key defines no __eq__, so the
\* comparison is that of object, by identity
Key__eq__(a, b) == a.ref = b.ref

\* the names of the permission fields whose value is 1 (device.py 289-291);
\* fields is ListFields(): the set fields, in field order, as <<name, value>>
TruthyPermissions(fields) ==
    LET RECURSIVE Collect(_)
        Collect(i) ==
            IF i > Len(fields) THEN <<>>
            ELSE (IF fields[i][2] = 1 THEN <<fields[i][1]>> ELSE <<>>) \o Collect(i + 1)
    IN  Collect(1)

\* mutant of KeyOfContainer: the permissions are collected whatever the type
KeyOfContainer_AnyType(enc, container) ==
    LET key_type == container.Type
        permissions == TruthyPermissions(container._OperatorSessionKeyPermissions)
        plain == AES_CBC_decrypt_unpad(enc, container.Iv, container.Key)
    IN  IF plain.ok
        THEN [ok |-> TRUE,
              key |-> Key(IF container.Id # "" THEN container.Id ELSE key_type,
                          key_type, plain.plain, permissions)]
        ELSE [ok |-> FALSE]

\* the Key made from one KeyContainer (device.py 286-297), or the failure of
\* unpad
KeyOfContainer(enc, container) ==
    LET key_type == container.Type
        permissions == IF key_type = "OPERATOR_SESSION"
                       THEN TruthyPermissions(container._OperatorSessionKeyPermissions)
                       ELSE <<>>
        plain == AES_CBC_decrypt_unpad(enc, container.Iv, container.Key)
    IN  IF plain.ok
        THEN [ok |-> TRUE,
              key |-> Key(IF container.Id # "" THEN container.Id ELSE key_type,
                          key_type, plain.plain, permissions)]
        ELSE [ok |-> FALSE]

\* the loop over signed_license.Msg.Key: each Key is appended as it is made,
\* and a failing container raises out of the loop
RECURSIVE AppendKeys(_, _, _, _)
AppendKeys(session, enc, containers, i) ==
    IF i > Len(containers)
    THEN [error |-> "OK", session |-> session]
    ELSE LET k == KeyOfContainer(enc, containers[i])
         IN  IF k.ok
             THEN AppendKeys([session EXCEPT !.keys = Append(@, k.key)],
                             enc, containers, i + 1)
             ELSE [error |-> "PaddingError", session |-> session]

\* mutant of SignatureMatches: the mismatch is logged, not raised
SignatureMatches_Warn(auth_1, signed_license) == TRUE

\* the comparison of the recomputed HMAC with the response's signature
\* (device.py 280-283)
SignatureMatches(auth_1, signed_license) ==
    HMAC(auth_1, SerializeToString(signed_license.Msg)) = signed_license.Signature

\* mutant of DeriveKeys: auth_2 is derived with the counters of auth_1
DeriveKeys_SameCounters(session_key, license_request) ==
    LET license_req_msg == SerializeToString(license_request.Msg)
        enc_key_base == ENCRYPTION \o Bytes(<<0>>) \o license_req_msg
                            \o Bytes(<<0, 0, 0, 128>>)
        auth_key_base == AUTHENTICATION \o Bytes(<<0>>) \o license_req_msg
                            \o Bytes(<<0, 0, 2, 0>>)
    IN  [ enc |-> [bytes |-> get_auth_keys(<<1>>, session_key, enc_key_base)],
          auth_1 |-> [bytes |-> get_auth_keys(<<1, 2>>, session_key, auth_key_base)],
          auth_2 |-> [bytes |-> get_auth_keys(<<1, 2>>, session_key, auth_key_base)] ]

\* mutant of DeriveKeys: the bases are built from the signed request, not
\* from its message
DeriveKeys_SignedRequest(session_key, license_request) ==
    LET license_req_msg == SerializeToString(license_request)
        enc_key_base == ENCRYPTION \o Bytes(<<0>>) \o license_req_msg
                            \o Bytes(<<0, 0, 0, 128>>)
        auth_key_base == AUTHENTICATION \o Bytes(<<0>>) \o license_req_msg
                            \o Bytes(<<0, 0, 2, 0>>)
    IN  [ enc |-> [bytes |-> get_auth_keys(<<1>>, session_key, enc_key_base)],
          auth_1 |-> [bytes |-> get_auth_keys(<<1, 2>>, session_key, auth_key_base)],
          auth_2 |-> [bytes |-> get_auth_keys(<<3, 4>>, session_key, auth_key_base)] ]

\* the derivation of session.derived_keys (device.py 268-275)
DeriveKeys(session_key, license_request) ==
    LET license_req_msg == SerializeToString(license_request.Msg)
        enc_key_base == ENCRYPTION \o Bytes(<<0>>) \o license_req_msg
                            \o Bytes(<<0, 0, 0, 128>>)
        auth_key_base == AUTHENTICATION \o Bytes(<<0>>) \o license_req_msg
                            \o Bytes(<<0, 0, 2, 0>>)
    IN  [ enc |-> [bytes |-> get_auth_keys(<<1>>, session_key, enc_key_base)],
          auth_1 |-> [bytes |-> get_auth_keys(<<1, 2>>, session_key, auth_key_base)],
          auth_2 |-> [bytes |-> get_auth_keys(<<3, 4>>, session_key, auth_key_base)] ]

\* mutant of LocalDevice_parse_license: a failed unwrap leaves an empty
\* session key on the session
LocalDevice_parse_license_EmptyKey(dev, session, license_res) ==
    IF session.license_request = Unset
    THEN [error |-> "AttributeError", session |-> session, ret |-> None]
    ELSE IF ~Truthy(session.license_request)
    THEN [error |-> "ProtocolStateError", session |-> session, ret |-> None]
    ELSE IF ~license_res.SignedLicense
    THEN [error |-> "MalformedResponse", session |-> session, ret |-> None]
    ELSE
      LET s1 == [session EXCEPT !.signed_license = license_res]
          unwrapped == OAEP_decrypt(dev.private_key, license_res.SessionKey)
      IN  IF ~unwrapped.ok
          THEN [error |-> "UnwrapError",
                session |-> [s1 EXCEPT !.session_key = [bytes |-> ""]], ret |-> None]
          ELSE
            LET s2 == [s1 EXCEPT
                         !.session_key = [bytes |-> unwrapped.plain],
                         !.derived_keys =
                             DeriveKeys(unwrapped.plain, session.license_request)]
            IN  IF ~SignatureMatches(s2.derived_keys.auth_1.bytes, license_res)
                THEN [error |-> "SignatureMismatch", session |-> s2, ret |-> None]
                ELSE
                  LET done == AppendKeys(s2, s2.derived_keys.enc.bytes,
                                         license_res.Msg.Key, 1)
                  IN  [ error |-> done.error, session |-> done.session,
                        ret |-> IF done.error = "OK" THEN [bool |-> TRUE] ELSE None ]

LocalDevice_parse_license(dev, session, license_res) ==
    IF session.license_request = Unset
    THEN [error |-> "AttributeError", session |-> session, ret |-> None]
    ELSE IF ~Truthy(session.license_request)
    THEN [error |-> "ProtocolStateError", session |-> session, ret |-> None]
    ELSE IF ~license_res.SignedLicense
    THEN [error |-> "MalformedResponse", session |-> session, ret |-> None]
    ELSE
      LET s1 == [session EXCEPT !.signed_license = license_res]
          unwrapped == OAEP_decrypt(dev.private_key, license_res.SessionKey)
      IN  IF ~unwrapped.ok
          THEN [error |-> "UnwrapError", session |-> s1, ret |-> None]
          ELSE
            LET s2 == [s1 EXCEPT
                         !.session_key = [bytes |-> unwrapped.plain],
                         !.derived_keys =
                             DeriveKeys(unwrapped.plain, session.license_request)]
            IN  IF ~SignatureMatches(s2.derived_keys.auth_1.bytes, license_res)
                THEN [error |-> "SignatureMismatch", session |-> s2, ret |-> None]
                ELSE
                  LET done == AppendKeys(s2, s2.derived_keys.enc.bytes,
                                         license_res.Msg.Key, 1)
                  IN  [ error |-> done.error, session |-> done.session,
                        ret |-> IF done.error = "OK" THEN [bool |-> TRUE] ELSE None ]

----------------------------------------------------------------------------
(* RemoteDevice (device.py).  reply is what requests.post brought back.    *)

\* mutant of RemoteDevice_session: a post that brought no reply is made again
RemoteDevice_session_Retry(reply) ==
    IF reply.transport # "ok"
    THEN [error |-> "RemoteTransportError", posts |-> 2]
    ELSE IF reply.status_code # 200
    THEN [error |-> "BadStatus", posts |-> 1]
    ELSE [error |-> "OK", message |-> reply.message, posts |-> 1]

\* RemoteDevice.session: the RPC's outcome from the reply, and the number of
\* times requests.post was called
RemoteDevice_session(reply) ==
    IF reply.transport # "ok"
    THEN [error |-> "RemoteTransportError", posts |-> 1]
    ELSE IF reply.status_code # 200
    THEN [error |-> "BadStatus", posts |-> 1]
    ELSE [error |-> "OK", message |-> reply.message, posts |-> 1]

RemoteDevice_set_service_certificate(session, certificate) ==
    [ error |-> "OK",
      session |-> [session EXCEPT !.signed_device_certificate = [base64 |-> certificate],
                                  !.privacy_mode = TRUE],
      ret |-> [bool |-> TRUE] ]

\* the params of the GetChallenge RPC (device.py 336-342)
GetChallengeParams(dev, session) ==
    [ init |-> session.pssh,
      cert |-> session.signed_device_certificate,
      raw |-> session.raw,
      licensetype |-> IF session.offline THEN "OFFLINE" ELSE "STREAMING",
      device |-> dev.device ]

\* returns the device's api_session_id as the call leaves it, too
RemoteDevice_get_license_challenge(dev, session, handle, reply) ==
    LET res == RemoteDevice_session(reply)
    IN  IF res.error # "OK"
        THEN [error |-> res.error, session |-> session, ret |-> None,
              api_session_id |-> handle, posts |-> res.posts]
        ELSE [error |-> "OK", session |-> session,
              ret |-> [bytes |-> res.message.challenge],
              api_session_id |-> res.message.session_id, posts |-> res.posts]

\* the params of the GetKeys RPC (device.py 352-355)
GetKeysParams(handle, license_res) ==
    [cdmkeyresponse |-> license_res, session_id |-> handle]

\* the Keys made from the reply's {kid, key} pairs (device.py 357-361)
RemoteKeys(pairs) ==
    [i \in 1..Len(pairs) |-> Key(pairs[i].kid, "CONTENT", pairs[i].key, <<>>)]

\* mutant of RemoteDevice_parse_license: the Keys of the reply are assigned
\* to the session's list, not added to it
RemoteDevice_parse_license_Assign(dev, session, license_res, reply) ==
    LET res == RemoteDevice_session(reply)
    IN  IF res.error # "OK"
        THEN [error |-> res.error, session |-> session, ret |-> None,
              posts |-> res.posts]
        ELSE [error |-> "OK",
              session |-> [session EXCEPT !.keys = RemoteKeys(res.message.keys)],
              ret |-> [bool |-> TRUE], posts |-> res.posts]

RemoteDevice_parse_license(dev, session, license_res, reply) ==
    LET res == RemoteDevice_session(reply)
    IN  IF res.error # "OK"
        THEN [error |-> res.error, session |-> session, ret |-> None,
              posts |-> res.posts]
        ELSE [error |-> "OK",
              session |-> [session EXCEPT !.keys = @ \o RemoteKeys(res.message.keys)],
              ret |-> [bool |-> TRUE], posts |-> res.posts]

----------------------------------------------------------------------------
(* The remote CDM API the RemoteDevice posts to.  It keeps, per handle it  *)
(* has issued, the params of the GetChallenge call that opened it.         *)

FailedReplies ==
    { [transport |-> "ConnectionError"],
      [transport |-> "HTTPError"],
      [transport |-> "ok", status_code |-> 500] }

\* the handle the API issues next
NextHandle == [handle |-> Len(proxy) + 1]

GetChallengeReplies ==
    FailedReplies \cup
    { [ transport |-> "ok", status_code |-> 200,
        message |-> [session_id |-> NextHandle, challenge |-> <<NextHandle>>] ] }

\* the content keys of a PSSH, as the license service gives them out
ContentKeysOf(pssh) ==
    << [kid |-> "kid1", key |-> pssh], [kid |-> "kid2", key |-> pssh] >>

\* the API answers GetKeys with the keys of the content its session was
\* opened for when the response answers that session's challenge
GetKeysReplies(params) ==
    FailedReplies \cup
    IF params.session_id # None /\ params.cdmkeyresponse = params.session_id
    THEN { [ transport |-> "ok", status_code |-> 200,
             message |-> [keys |-> ContentKeysOf(proxy[params.session_id.handle].init)] ] }
    ELSE {}

----------------------------------------------------------------------------
(* The license service answering a Local challenge: it derives the keys    *)
(* from the request it was sent and wraps the content keys under them.     *)

SessionKeys == {"session_key1"}

KeySpec(Id, Type, key, padded, permissions) ==
    [Id |-> Id, Type |-> Type, key |-> key, padded |-> padded,
     permissions |-> permissions]

\* the keys a license carries, in encoded order
FirstBody ==
    << KeySpec("kid1", "CONTENT", "key1", TRUE, <<>>),
       KeySpec("", "SIGNING", "key3", TRUE, <<>>),
       KeySpec("kid2", "CONTENT", "key2", TRUE, <<>>) >>

LicenseBodies ==
    { FirstBody,
      << KeySpec("kid4", "OPERATOR_SESSION", "key4", TRUE,
                 << <<"AllowEncrypt", 1>>, <<"AllowDecrypt", 0>>, <<"AllowSign", 1>> >>),
         KeySpec("kid2", "CONTENT", "key2", TRUE,
                 << <<"AllowEncrypt", 1>> >>) >>,
      << KeySpec("kid1", "CONTENT", "key1", TRUE, <<>>),
         KeySpec("kid2", "CONTENT", "key2", FALSE, <<>>) >> }

KeyContainers(enc, body) ==
    [ i \in 1..Len(body) |->
        [ Id |-> body[i].Id, Type |-> body[i].Type, Iv |-> "iv",
          Key |-> AES_CBC_encrypt(enc, "iv", body[i].key, body[i].padded),
          _OperatorSessionKeyPermissions |-> body[i].permissions ] ]

\* the SignedLicense answering request message Msg for the device owning
\* private_key
SignedLicenseFor(Msg, session_key, body, private_key) ==
    LET derived == generate_derived_keys(SerializeToString(Msg), session_key)
        License == [Key |-> KeyContainers(derived.enc, body)]
    IN  [ SignedLicense |-> TRUE,
          SessionKey |-> OAEP_encrypt(PublicKey(private_key), session_key),
          Msg |-> License,
          Signature |-> HMAC(derived.auth_1, SerializeToString(License)) ]

\* the response with one byte of its signature changed
CorruptSignature(signed_license) ==
    [signed_license EXCEPT !.Signature.corrupted = TRUE]

\* the response with its session key wrapped for another device's key
WrappedForAnother(signed_license) ==
    [signed_license EXCEPT !.SessionKey.oaep = PublicKey("another_rsa")]

\* the request messages of the challenges handed out so far
RequestsInFlight == UNION { sent[s] : s \in DOMAIN sent }

\* what a caller may pass to a Local parse_license
LocalResponses ==
    {[SignedLicense |-> FALSE]} \cup
    UNION { LET good == SignedLicenseFor(m, k, b, device.private_key)
            IN  IF b = FirstBody
                THEN {good, CorruptSignature(good), WrappedForAnother(good)}
                ELSE {good}
            : m \in RequestsInFlight, k \in SessionKeys, b \in LicenseBodies }

\* what a caller may pass to a Remote parse_license: the service's answer to
\* the challenge of a handle
RemoteResponses == { [handle |-> h] : h \in 1..Len(proxy) } \cup {[handle |-> 0]}

----------------------------------------------------------------------------
(* The Cdm (cdm.py).  Every action is one call of the public API; last     *)
(* records the call, whether the device was reached, and the outcome.      *)

Call(op, session_id, arg, reached, error, ret) ==
    [ op |-> op, session_id |-> session_id, arg |-> arg,
      device_reached |-> reached, error |-> error, ret |-> ret ]

\* the record of a call that reached the Remote device: posts is the number
\* of RPCs the call issued
RemoteCall(op, session_id, arg, error, ret, posts, reply) ==
    [ op |-> op, session_id |-> session_id, arg |-> arg,
      device_reached |-> TRUE, error |-> error, ret |-> ret, posts |-> posts,
      reply |-> reply ]

\* the caller threads
Threads == 1..MaxThreads

\* a thread that is inside no method and has made no call
Idle == [at |-> "idle", op |-> "none", session_id |-> None, error |-> "OK", ret |-> None]

\* the provision command before it is run
NotStarted ==
    [ at |-> "start", keybox |-> None, nonce |-> None, keys |-> None,
      signed_provisioning_message |-> None, server_prov_response |-> None,
      signed_response |-> None, provisioning_response |-> None,
      device_rsa_key |-> None, file |-> None, failure |-> "none", passed |-> <<>> ]

Init ==
    /\ pc = [t \in Threads |-> Idle]
    /\ prv = NotStarted
    /\ device \in Devices
    /\ sessions = <<>>
    /\ api_session_id = None
    /\ proxy = <<>>
    /\ sent = <<>>
    /\ accepted = <<>>
    /\ calls = 0
    /\ last = Call("init", None, None, FALSE, "OK", None)

\* self.sessions[session_id] = session
StoreSession(map, session_id, session) == (session_id :> session) @@ map

\* mutant of PopSession: the entry is read, not removed
PopSession_Keep(map, session_id) == map

\* self.sessions.pop(session_id)
PopSession(map, session_id) == [x \in DOMAIN map \ {session_id} |-> map[x]]

\* Cdm.open, with r the outcome of the RNG behind create_session_id
open(args, r) ==
    LET session_id == create_session_id(device, r)
        made == Session(session_id, args.pssh, args.raw, args.offline)
    IN  /\ calls < MaxCalls
        /\ calls' = calls + 1
        /\ UNCHANGED <<pc, prv>>
        /\ IF made.error = "OK"
           THEN /\ sessions' = StoreSession(sessions, session_id, made.session)
                /\ sent' = StoreSession(sent, session_id, {})
                /\ accepted' = StoreSession(accepted, session_id, <<>>)
                /\ last' = Call("open", session_id, args, FALSE, "OK",
                                [session_id |-> session_id])
           ELSE /\ UNCHANGED <<sessions, sent, accepted>>
                /\ last' = Call("open", session_id, args, FALSE, made.error, None)
        /\ UNCHANGED <<device, api_session_id, proxy>>

\* Cdm.close
close(session_id) ==
    /\ calls < MaxCalls
    /\ calls' = calls + 1
    /\ UNCHANGED <<pc, prv>>
    /\ IF is_session_open(session_id)
       THEN /\ sessions' = PopSession(sessions, session_id)
            /\ sent' = PopSession(sent, session_id)
            /\ accepted' = PopSession(accepted, session_id)
            /\ last' = Call("close", session_id, None, FALSE, "OK", [bool |-> TRUE])
       ELSE /\ UNCHANGED <<sessions, sent, accepted>>
            /\ last' = Call("close", session_id, None, FALSE, "OK", [bool |-> FALSE])
    /\ UNCHANGED <<device, api_session_id, proxy>>

\* mutant of UnknownSession: the call returns None instead of raising
UnknownSession_Silent(op, session_id, arg) ==
    /\ last' = Call(op, session_id, arg, FALSE, "OK", None)
    /\ UNCHANGED <<device, sessions, api_session_id, proxy, sent, accepted>>

\* the ValueError of a dispatching method called with an id that is not open
UnknownSession(op, session_id, arg) ==
    /\ last' = Call(op, session_id, arg, FALSE, "UnknownSession", None)
    /\ UNCHANGED <<device, sessions, api_session_id, proxy, sent, accepted>>

\* Cdm.set_service_certificate
set_service_certificate(session_id, certificate) ==
    /\ calls < MaxCalls
    /\ calls' = calls + 1
    /\ UNCHANGED <<pc, prv>>
    /\ IF ~is_session_open(session_id)
       THEN UnknownSession("set_service_certificate", session_id, certificate)
       ELSE LET res == IF IsLocal
                       THEN LocalDevice_set_service_certificate(
                                sessions[session_id], certificate)
                       ELSE RemoteDevice_set_service_certificate(
                                sessions[session_id], certificate)
            IN  /\ sessions' = [sessions EXCEPT ![session_id] = res.session]
                /\ last' = Call("set_service_certificate", session_id, certificate,
                                TRUE, res.error, res.ret)
                /\ UNCHANGED <<device, api_session_id, proxy, sent, accepted>>

\* Cdm.get_license_challenge with the Local device
get_license_challenge_local(session_id, time, nonce, cid_aes_key, cid_iv) ==
    /\ IsLocal
    /\ calls < MaxCalls
    /\ calls' = calls + 1
    /\ UNCHANGED <<pc, prv>>
    /\ IF ~is_session_open(session_id)
       THEN UnknownSession("get_license_challenge", session_id, None)
       ELSE LET drawn == [time |-> time, nonce |-> nonce,
                          cid_aes_key |-> cid_aes_key, cid_iv |-> cid_iv]
                res == LocalDevice_get_license_challenge(
                           device, sessions[session_id], time, nonce, cid_aes_key, cid_iv)
            IN  /\ sessions' = [sessions EXCEPT ![session_id] = res.session]
                /\ sent' = IF res.error = "OK"
                           THEN [sent EXCEPT ![session_id] =
                                     @ \cup {res.session.license_request.Msg}]
                           ELSE sent
                /\ last' = Call("get_license_challenge", session_id, drawn,
                                TRUE, res.error, res.ret)
                /\ UNCHANGED <<device, api_session_id, proxy, accepted>>

\* mutant of get_license_challenge_remote: the handle the API returned is
\* kept in the device's key, the API token, too
get_license_challenge_remote_HandleAsKey(session_id, reply) ==
    /\ IsRemote
    /\ calls < MaxCalls
    /\ calls' = calls + 1
    /\ UNCHANGED <<pc, prv>>
    /\ IF ~is_session_open(session_id)
       THEN UnknownSession("get_license_challenge", session_id, None)
       ELSE LET params == GetChallengeParams(device, sessions[session_id])
                res == RemoteDevice_get_license_challenge(
                           device, sessions[session_id], api_session_id, reply)
            IN  /\ sessions' = [sessions EXCEPT ![session_id] = res.session]
                /\ api_session_id' = res.api_session_id
                /\ device' = IF res.error = "OK"
                             THEN [device EXCEPT !.key = "session_handle"]
                             ELSE device
                /\ proxy' = IF res.error = "OK" THEN Append(proxy, params) ELSE proxy
                /\ sent' = IF res.error = "OK"
                           THEN [sent EXCEPT ![session_id] = @ \cup {res.api_session_id}]
                           ELSE sent
                /\ last' = RemoteCall("get_license_challenge", session_id, params,
                                      res.error, res.ret, res.posts, reply)
                /\ UNCHANGED accepted

\* Cdm.get_license_challenge with the Remote device
get_license_challenge_remote(session_id, reply) ==
    /\ IsRemote
    /\ calls < MaxCalls
    /\ calls' = calls + 1
    /\ UNCHANGED <<pc, prv>>
    /\ IF ~is_session_open(session_id)
       THEN UnknownSession("get_license_challenge", session_id, None)
       ELSE LET params == GetChallengeParams(device, sessions[session_id])
                res == RemoteDevice_get_license_challenge(
                           device, sessions[session_id], api_session_id, reply)
            IN  /\ sessions' = [sessions EXCEPT ![session_id] = res.session]
                /\ api_session_id' = res.api_session_id
                /\ proxy' = IF res.error = "OK" THEN Append(proxy, params) ELSE proxy
                /\ sent' = IF res.error = "OK"
                           THEN [sent EXCEPT ![session_id] = @ \cup {res.api_session_id}]
                           ELSE sent
                /\ last' = RemoteCall("get_license_challenge", session_id, params,
                                      res.error, res.ret, res.posts, reply)
                /\ UNCHANGED <<device, accepted>>

\* Cdm.parse_license with the Local device
parse_license_local(session_id, license_res) ==
    /\ IsLocal
    /\ calls < MaxCalls
    /\ calls' = calls + 1
    /\ UNCHANGED <<pc, prv>>
    /\ IF ~is_session_open(session_id)
       THEN UnknownSession("parse_license", session_id, license_res)
       ELSE LET res == LocalDevice_parse_license(device, sessions[session_id], license_res)
            IN  /\ sessions' = [sessions EXCEPT ![session_id] = res.session]
                /\ accepted' = IF res.error = "OK"
                               THEN [accepted EXCEPT ![session_id] = Append(@, license_res)]
                               ELSE accepted
                /\ last' = Call("parse_license", session_id, license_res,
                                TRUE, res.error, res.ret)
                /\ UNCHANGED <<device, api_session_id, proxy, sent>>

\* Cdm.parse_license with the Remote device; handle_sent is the handle the
\* GetKeys RPC carried
parse_license_remote(session_id, license_res, reply) ==
    /\ IsRemote
    /\ calls < MaxCalls
    /\ calls' = calls + 1
    /\ UNCHANGED <<pc, prv>>
    /\ IF ~is_session_open(session_id)
       THEN UnknownSession("parse_license", session_id, license_res)
       ELSE LET params == GetKeysParams(api_session_id, license_res)
                res == RemoteDevice_parse_license(
                           device, sessions[session_id], license_res, reply)
            IN  /\ reply \in GetKeysReplies(params)
                /\ sessions' = [sessions EXCEPT ![session_id] = res.session]
                /\ accepted' = IF res.error = "OK"
                               THEN [accepted EXCEPT ![session_id] = Append(@, license_res)]
                               ELSE accepted
                /\ last' = RemoteCall("parse_license", session_id, params,
                                      res.error, res.ret, res.posts, reply)
                /\ UNCHANGED <<device, api_session_id, proxy, sent>>

\* mutant of KeysReturned: content_only is ignored
KeysReturned_All(keys, content_only) == keys

\* the list get_keys returns from the session's keys (cdm.py 85-88)
KeysReturned(keys, content_only) ==
    IF content_only THEN SelectSeq(keys, LAMBDA x: x.type = "CONTENT") ELSE keys

\* Cdm.get_keys
get_keys(session_id, content_only) ==
    /\ calls < MaxCalls
    /\ calls' = calls + 1
    /\ UNCHANGED <<pc, prv>>
    /\ IF ~is_session_open(session_id)
       THEN UnknownSession("get_keys", session_id, [content_only |-> content_only])
       ELSE /\ last' = Call("get_keys", session_id, [content_only |-> content_only],
                            FALSE, "OK",
                            [keys |-> KeysReturned(sessions[session_id].keys, content_only)])
            /\ UNCHANGED <<device, sessions, api_session_id, proxy, sent, accepted>>

\* what int(time.time()) can return to a call; the wall clock can be set back
\* between two calls
Times == 0..MaxTime

\* every reply a GetKeys call can bring back, whatever it carried
AllGetKeysReplies ==
    UNION { GetKeysReplies(GetKeysParams(api_session_id, r)) : r \in RemoteResponses }

Next ==
    \/ \E args \in OpenArgs, r \in RandomIds : open(args, r)
    \/ \E session_id \in SessionIds : close(session_id)
    \/ \E session_id \in SessionIds, certificate \in Certificates :
           set_service_certificate(session_id, certificate)
    \/ IsLocal /\ \E session_id \in SessionIds, time \in Times, nonce \in Nonces,
          cid_aes_key \in RandomBytes16, cid_iv \in RandomBytes16 :
           get_license_challenge_local(session_id, time, nonce, cid_aes_key, cid_iv)
    \/ IsRemote /\ \E session_id \in SessionIds, reply \in GetChallengeReplies :
           get_license_challenge_remote(session_id, reply)
    \/ IsLocal /\ \E session_id \in SessionIds, license_res \in LocalResponses :
           parse_license_local(session_id, license_res)
    \/ IsRemote /\ \E session_id \in SessionIds, license_res \in RemoteResponses,
          reply \in AllGetKeysReplies :
           parse_license_remote(session_id, license_res, reply)
    \/ \E session_id \in SessionIds, content_only \in BOOLEAN :
           get_keys(session_id, content_only)

Spec == Init /\ [][Next]_vars

\* The Cdm of a Remote device after open(pssh1) and open(pssh2, raw, offline)
\* returned the ids made from the RNG's outcomes 1 and 2; calls counts the
\* calls made from there.
InitTwoSessions ==
    LET dev == RemoteDevice("CHROME")
        A == create_session_id(dev, 1)
        B == create_session_id(dev, 2)
        argsB == [pssh |-> "pssh2", raw |-> TRUE, offline |-> TRUE]
    IN  /\ device = dev
        /\ sessions = StoreSession(StoreSession(<<>>, A,
                           Session(A, "pssh1", FALSE, FALSE).session),
                           B, Session(B, argsB.pssh, argsB.raw, argsB.offline).session)
        /\ api_session_id = None
        /\ proxy = <<>>
        /\ sent = StoreSession(StoreSession(<<>>, A, {}), B, {})
        /\ accepted = StoreSession(StoreSession(<<>>, A, <<>>), B, <<>>)
        /\ calls = 0
        /\ last = Call("open", B, argsB, FALSE, "OK", [session_id |-> B])
        /\ pc = [t \in Threads |-> Idle]
        /\ prv = NotStarted

\* the calls on open sessions of a Remote device
NextRemote ==
    \/ \E session_id \in SessionIds, reply \in GetChallengeReplies :
           get_license_challenge_remote(session_id, reply)
    \/ \E session_id \in SessionIds, license_res \in RemoteResponses,
          reply \in AllGetKeysReplies :
           parse_license_remote(session_id, license_res, reply)
    \/ \E session_id \in SessionIds, content_only \in BOOLEAN :
           get_keys(session_id, content_only)

SpecTwoSessions == InitTwoSessions /\ [][NextRemote]_vars

----------------------------------------------------------------------------
(* The Cdm called from several threads.  The Cdm holds no lock: a thread   *)
(* can be suspended between two accesses of the session map, so a method   *)
(* that looks an id up and then uses it is two steps.  pc[t] says which     *)
(* method thread t is inside of, after its check, and what its last call   *)
(* came to.                                                                *)

\* the thread's call is over
Returned(op, session_id, error, ret) ==
    [at |-> "idle", op |-> op, session_id |-> session_id, error |-> error, ret |-> ret]

\* the thread passed the check of op and is about to use the map
Inside(op, session_id, arg) ==
    [at |-> op, op |-> op, session_id |-> session_id, error |-> "OK", ret |-> arg]

\* Cdm.open in thread t: the map is accessed once, by the store
thread_open(t, args, r) ==
    LET session_id == create_session_id(device, r)
        made == Session(session_id, args.pssh, args.raw, args.offline)
    IN  /\ pc[t].at = "idle"
        /\ IF made.error = "OK"
           THEN /\ sessions' = StoreSession(sessions, session_id, made.session)
                /\ pc' = [pc EXCEPT ![t] = Returned("open", session_id, "OK",
                                                    [session_id |-> session_id])]
           ELSE /\ UNCHANGED sessions
                /\ pc' = [pc EXCEPT ![t] = Returned("open", session_id, made.error, None)]
        /\ UNCHANGED <<device, api_session_id, proxy, sent, accepted, calls, last, prv>>

\* Cdm.close in thread t, up to the outcome of is_session_open (cdm.py 59)
thread_close_check(t, session_id) ==
    /\ pc[t].at = "idle"
    /\ pc' = [pc EXCEPT ![t] =
                 IF is_session_open(session_id)
                 THEN Inside("close", session_id, None)
                 ELSE Returned("close", session_id, "OK", [bool |-> FALSE])]
    /\ UNCHANGED <<device, sessions, api_session_id, proxy, sent, accepted, calls, last, prv>>

\* Cdm.close in thread t, the pop (cdm.py 60-61): dict.pop of a missing key
\* raises KeyError
thread_close_pop(t) ==
    /\ pc[t].at = "close"
    /\ IF pc[t].session_id \in DOMAIN sessions
       THEN /\ sessions' = PopSession(sessions, pc[t].session_id)
            /\ pc' = [pc EXCEPT ![t] =
                         Returned("close", pc[t].session_id, "OK", [bool |-> TRUE])]
       ELSE /\ UNCHANGED sessions
            /\ pc' = [pc EXCEPT ![t] =
                         Returned("close", pc[t].session_id, "KeyError", None)]
    /\ UNCHANGED <<device, api_session_id, proxy, sent, accepted, calls, last, prv>>

\* Cdm.get_keys in thread t, up to the outcome of is_session_open
\* (cdm.py 83-84)
thread_get_keys_check(t, session_id, content_only) ==
    /\ pc[t].at = "idle"
    /\ pc' = [pc EXCEPT ![t] =
                 IF is_session_open(session_id)
                 THEN Inside("get_keys", session_id, [content_only |-> content_only])
                 ELSE Returned("get_keys", session_id, "UnknownSession", None)]
    /\ UNCHANGED <<device, sessions, api_session_id, proxy, sent, accepted, calls, last, prv>>

\* Cdm.get_keys in thread t, the lookup self.sessions[session_id] and the
\* return (cdm.py 85-88): the subscript of a missing key raises KeyError
thread_get_keys_read(t) ==
    /\ pc[t].at = "get_keys"
    /\ pc' = [pc EXCEPT ![t] =
                 IF pc[t].session_id \in DOMAIN sessions
                 THEN Returned("get_keys", pc[t].session_id, "OK",
                               [keys |-> KeysReturned(sessions[pc[t].session_id].keys,
                                                      pc[t].ret.content_only)])
                 ELSE Returned("get_keys", pc[t].session_id, "KeyError", None)]
    /\ UNCHANGED <<device, sessions, api_session_id, proxy, sent, accepted, calls, last, prv>>

NextThreads ==
    \/ \E t \in Threads, args \in OpenArgs, r \in RandomIds : thread_open(t, args, r)
    \/ \E t \in Threads, session_id \in SessionIds : thread_close_check(t, session_id)
    \/ \E t \in Threads : thread_close_pop(t)
    \/ \E t \in Threads, session_id \in SessionIds, content_only \in BOOLEAN :
           thread_get_keys_check(t, session_id, content_only)
    \/ \E t \in Threads : thread_get_keys_read(t)

SpecThreads == Init /\ [][NextThreads]_vars

----------------------------------------------------------------------------
(* The provision command (commands/wvd.py): a keybox is provisioned with   *)
(* the provisioning server and the device key and certificate it returns   *)
(* are written to a WVD device file.  The command is followed statement by *)
(* statement from the point where the keybox has been loaded; each         *)
(* `log.exit(...)` is followed by a `raise`, after which no statement of   *)
(* the command runs.                                                       *)

\* the keyboxes the command is run on, by the fields Keybox.__init__ reads
\* from the file (keybox.py 28-30).  As written, Keybox.__init__ returns for
\* no file: a 128-byte keybox is refused at line 16 and for a 132-byte one
\* the unpack of line 33 is given 8 bytes for a 4-byte format.  The command
\* is followed for the keybox a load that returned would have produced.
Keyboxes ==
    { [stable_id |-> "stable1", device_aes_key |-> "aes1", device_id |-> "id1"],
      [stable_id |-> "stable2", device_aes_key |-> "aes2", device_id |-> "id2"] }

\* get_random_bytes(4), abstracted to two values
ProvisionNonces == { [bytes |-> "n1"], [bytes |-> "n2"] }

\* the config file next to the keybox
ProvisionConfig ==
    [ wvd |-> [device_type |-> "ANDROID", security_level |-> 1,
               send_key_control_nonce |-> TRUE],
      client_info |-> [company_name |-> "company"],
      capabilities |-> [session_token |-> TRUE] ]

\* base64.urlsafe_b64encode and base64.urlsafe_b64decode
urlsafe_b64encode(b) == [urlsafe_b64 |-> b]
urlsafe_b64decode(text) == text.urlsafe_b64

\* message.ParseFromString(b) of bytes that are a serialized message
ParseFromString(b) == b[1].pb

ExpectedKind == "certificateprovisioning#certificateProvisioningResponse"

\* what the provisioning server may answer a signed request with: an error,
\* or a response for a nonce, signed or not with the auth_1 key derived from
\* the request, carrying the device key wrapped under the derived enc key
ProvisioningReplies(signed_provisioning_message, device_aes_key) ==
    LET k == generate_derived_keys(signed_provisioning_message.message, device_aes_key)
        Response(n, padded) ==
            [ nonce |-> n,
              device_certificate |-> "device_certificate",
              device_rsa_key |-> AES_CBC_encrypt(k.enc, "rsa_iv", "device_rsa", padded),
              device_rsa_key_iv |-> "rsa_iv" ]
        Signed(n, padded, good) ==
            LET m == SerializeToString(Response(n, padded))
            IN  [ message |-> m,
                  signature |-> IF good THEN HMAC(k.auth_1, m)
                                ELSE [HMAC(k.auth_1, m) EXCEPT !.corrupted = TRUE] ]
    IN  { [error |-> "backendError"] }
        \cup
        { [ kind |-> kind,
            signedResponse |->
                urlsafe_b64encode(SerializeToString(Signed(n, padded, good))) ] :
          kind \in {ExpectedKind, "certificateprovisioning#other"},
          n \in ProvisionNonces, padded \in BOOLEAN, good \in BOOLEAN }

\* mutant of SignatureVerifies: the response's signature is not compared
SignatureVerifies_Unchecked(auth_1_key, signed_response) == TRUE

\* the comparison of the computed HMAC with the response's signature
\* (wvd.py 355-356)
SignatureVerifies(auth_1_key, signed_response) ==
    HMAC(auth_1_key, signed_response.message) = signed_response.signature

\* the Client ID made of the response's device certificate (wvd.py 373-417)
DeviceCertificateClientId(keybox, provisioning_response) ==
    [ Type |-> "DEVICE_CERTIFICATE",
      Token |-> provisioning_response.device_certificate,
      ClientInfo |-> [device_id |-> keybox.stable_id] @@ ProvisionConfig.client_info,
      _ClientCapabilities |-> ProvisionConfig.capabilities ]

\* LocalDevice(...).dumpb(): the fields of the device file (wvd.py 427-437)
WvdFile(device_rsa_key, ci) ==
    [ type |-> ProvisionConfig.wvd.device_type,
      security_level |-> ProvisionConfig.wvd.security_level,
      flags |-> [send_key_control_nonce |-> ProvisionConfig.wvd.send_key_control_nonce],
      private_key |-> device_rsa_key,
      client_id |-> SerializeToString(ci) ]

\* what a step of the command leaves alone
CdmUnchanged ==
    UNCHANGED <<device, sessions, api_session_id, proxy, sent, accepted, calls, last, pc>>

\* log.exit(...) and raise: the command stops
Exit(failure) == prv' = [prv EXCEPT !.at = "exit", !.failure = failure]

\* the request is built and signed and the keys are derived (wvd.py 262-299)
prv_sign_request(keybox, nonce) ==
    /\ prv.at = "start"
    /\ LET provisioning_request ==
               [ client_id |-> [Type |-> "KEYBOX", Token |-> keybox.device_id],
                 nonce |-> nonce,
                 options |-> [certificate_type |-> "WIDEVINE_DRM",
                              certificate_authority |-> ""] ]
           provisioning_request_string == SerializeToString(provisioning_request)
           keys == generate_derived_keys(provisioning_request_string,
                                         keybox.device_aes_key)
       IN  prv' = [prv EXCEPT
                     !.at = "post",
                     !.keybox = keybox,
                     !.nonce = provisioning_request.nonce,
                     !.keys = keys,
                     !.signed_provisioning_message =
                         [ message |-> provisioning_request_string,
                           signature |-> HMAC(keys.auth_2, provisioning_request_string),
                           protocol_version |-> "VERSION_2_0" ] ]
    /\ CdmUnchanged

\* the answers the server may give to the request that is about to be posted
PostReplies ==
    IF prv.at = "post"
    THEN ProvisioningReplies(prv.signed_provisioning_message, prv.keybox.device_aes_key)
    ELSE {}

\* the signed request is posted and the server's answer read (wvd.py 324-342)
prv_post(reply) ==
    /\ prv.at = "post"
    /\ reply \in PostReplies
    /\ prv' = [prv EXCEPT !.at = "check_error", !.server_prov_response = reply]
    /\ CdmUnchanged

\* wvd.py 344-346
prv_check_error ==
    /\ prv.at = "check_error"
    /\ IF "error" \in DOMAIN prv.server_prov_response
       THEN Exit("ServerError")
       ELSE prv' = [prv EXCEPT !.at = "check_kind", !.passed = Append(@, "error")]
    /\ CdmUnchanged

\* wvd.py 348-350
prv_check_kind ==
    /\ prv.at = "check_kind"
    /\ IF prv.server_prov_response.kind # ExpectedKind
       THEN Exit("UnexpectedKind")
       ELSE prv' = [prv EXCEPT !.at = "check_signature", !.passed = Append(@, "kind")]
    /\ CdmUnchanged

\* wvd.py 352-363
prv_check_signature ==
    /\ prv.at = "check_signature"
    /\ LET signed_response ==
               ParseFromString(urlsafe_b64decode(prv.server_prov_response.signedResponse))
       IN  IF ~SignatureVerifies(prv.keys.auth_1, signed_response)
           THEN prv' = [prv EXCEPT !.at = "exit", !.failure = "SignatureMismatch",
                                   !.signed_response = signed_response]
           ELSE prv' = [prv EXCEPT
                          !.at = "check_nonce",
                          !.signed_response = signed_response,
                          !.provisioning_response =
                              ParseFromString(signed_response.message),
                          !.passed = Append(@, "signature")]
    /\ CdmUnchanged

\* wvd.py 367-371
prv_check_nonce ==
    /\ prv.at = "check_nonce"
    /\ IF prv.provisioning_response.nonce # prv.nonce
       THEN Exit("NonceMismatch")
       ELSE prv' = [prv EXCEPT !.at = "decrypt", !.passed = Append(@, "nonce")]
    /\ CdmUnchanged

\* the device key is unwrapped with the derived enc key (wvd.py 421-422);
\* Padding.unpad raises ValueError
prv_decrypt ==
    /\ prv.at = "decrypt"
    /\ LET unwrapped ==
               AES_CBC_decrypt_unpad(prv.keys.enc,
                                     prv.provisioning_response.device_rsa_key_iv,
                                     prv.provisioning_response.device_rsa_key)
       IN  IF ~unwrapped.ok
           THEN Exit("PaddingError")
           ELSE prv' = [prv EXCEPT !.at = "dump",
                                   !.device_rsa_key = [bytes |-> unwrapped.plain]]
    /\ CdmUnchanged

\* the device file is written (wvd.py 424-439)
prv_dump ==
    /\ prv.at = "dump"
    /\ prv' = [prv EXCEPT
                 !.at = "done",
                 !.file = WvdFile(prv.device_rsa_key,
                                  DeviceCertificateClientId(prv.keybox,
                                                            prv.provisioning_response))]
    /\ CdmUnchanged

NextProvision ==
    \/ \E keybox \in Keyboxes, nonce \in ProvisionNonces : prv_sign_request(keybox, nonce)
    \/ \E reply \in PostReplies : prv_post(reply)
    \/ prv_check_error
    \/ prv_check_kind
    \/ prv_check_signature
    \/ prv_check_nonce
    \/ prv_decrypt
    \/ prv_dump

\* one run of the provision command, beside a Cdm nobody calls
InitProvision ==
    /\ Init
    /\ device = LocalDevice("CHROME", FALSE)

SpecProvision == InitProvision /\ [][NextProvision]_vars

----------------------------------------------------------------------------
(* Properties.                                                             *)

DispatchingOps ==
    {"set_service_certificate", "get_license_challenge", "parse_license", "get_keys"}

\* the step is a call of op on session id s
Called(op, s) == calls' # calls /\ last'.op = op /\ last'.session_id = s

\* C1: on an open session no get_license_challenge has succeeded on,
\* parse_license fails with ProtocolStateError and nothing else, and the
\* session has no Key, with the Local and with the Remote device.
C1_FreshParseIsProtocolStateError ==
    \A s \in DOMAIN sessions :
        (last.op = "parse_license" /\ last.session_id = s /\ sent[s] = {})
            => (last.error = "ProtocolStateError" /\ sessions[s].keys = <<>>)

\* the HMAC the license service would have put on the response, had it
\* answered the session's stored request under session key k
ExpectedSignature(session, k, signed_license) ==
    HMAC(generate_derived_keys(SerializeToString(session.license_request.Msg), k).auth_1,
         SerializeToString(signed_license.Msg))

\* a Local parse_license of a response that decodes and unwraps, on a session
\* holding a request, whose signature is not the HMAC under auth_1
SignatureDiffers(session, signed_license) ==
    /\ session.license_request # Unset
    /\ signed_license.SignedLicense
    /\ OAEP_decrypt(device.private_key, signed_license.SessionKey).ok
    /\ signed_license.Signature #
           ExpectedSignature(session,
                             OAEP_decrypt(device.private_key, signed_license.SessionKey).plain,
                             signed_license)

\* C2: when the HMAC-SHA256 of the license body under auth_1 differs from the
\* response's signature, parse_license fails with SignatureMismatch and the
\* Key list is what it was; a Local session's Key list changes only in a
\* parse_license whose response carried the matching signature.
C2_MismatchAddsNoKey ==
    [][ IsLocal =>
        \A s \in DOMAIN sessions \cap DOMAIN sessions' :
            /\ (Called("parse_license", s) /\ SignatureDiffers(sessions[s], last'.arg))
                   => ( /\ last'.error = "SignatureMismatch"
                        /\ sessions'[s].keys = sessions[s].keys )
            /\ (sessions'[s].keys # sessions[s].keys /\ last'.op # "open")
                   => ( /\ Called("parse_license", s)
                        /\ ~SignatureDiffers(sessions[s], last'.arg)
                        /\ last'.arg.SignedLicense )
      ]_vars

\* a corrupted response was refused on a session that already holds Keys
C2_Witness ==
    /\ IsLocal
    /\ last.op = "parse_license"
    /\ last.error = "SignatureMismatch"
    /\ last.arg.Signature.corrupted
    /\ Len(sessions[last.session_id].keys) > 0

\* C3: a Session holds one license_request at most: a successful Local
\* get_license_challenge leaves on the session the request it has just built,
\* in place of the one stored before, and that request is the one returned.
C3_RequestOverwritten ==
    [][ IsLocal =>
        \A s \in DOMAIN sessions :
            (Called("get_license_challenge", s) /\ last'.error = "OK")
                => LET built == LicenseRequestMsg(device, sessions[s], last'.arg.time,
                                    last'.arg.nonce, last'.arg.cid_aes_key,
                                    last'.arg.cid_iv)
                   IN  /\ sessions'[s].license_request.Msg = built
                       /\ last'.ret.bytes = SerializeToString(sessions'[s].license_request)
      ]_vars

\* a second, different request has replaced the first on one session
C3_Witness ==
    /\ IsLocal
    /\ last.op = "get_license_challenge"
    /\ last.error = "OK"
    /\ Cardinality(sent[last.session_id]) >= 2
    /\ sessions[last.session_id].license_request.Msg \in sent[last.session_id]

\* C4: on an id that is not open, the four dispatching operations fail with
\* UnknownSession, do not reach the device, and change neither the session
\* map nor any Session nor the device's state.
C4_UnknownSession ==
    [][ \A op \in DispatchingOps :
            (calls' # calls /\ last'.op = op /\ last'.session_id \notin DOMAIN sessions)
                => ( /\ last'.error = "UnknownSession"
                     /\ ~last'.device_reached
                     /\ sessions' = sessions
                     /\ api_session_id' = api_session_id
                     /\ proxy' = proxy )
      ]_vars

\* a dispatching operation was refused on an id while another session is open
C4_Witness ==
    /\ last.op \in DispatchingOps
    /\ last.error = "UnknownSession"
    /\ last.session_id \notin DOMAIN sessions
    /\ DOMAIN sessions # {}

\* C5: close of an open id removes that session and no other and returns
\* true, and the id is then not open; close of an id that is not open returns
\* false and leaves the map as it was.
C5_Close ==
    [][ \A s \in SessionIds :
            Called("close", s)
                => IF s \in DOMAIN sessions
                   THEN /\ last'.ret = [bool |-> TRUE]
                        /\ DOMAIN sessions' = DOMAIN sessions \ {s}
                        /\ \A t \in DOMAIN sessions' : sessions'[t] = sessions[t]
                   ELSE /\ last'.ret = [bool |-> FALSE]
                        /\ sessions' = sessions
      ]_vars

\* one of two open sessions was closed
C5_Witness ==
    /\ last.op = "close"
    /\ last.ret = [bool |-> TRUE]
    /\ last.session_id \notin DOMAIN sessions
    /\ DOMAIN sessions # {}

\* C6: every successful open returns an id that is not in the session map at
\* that moment, so the number of open sessions grows by exactly one and no
\* existing Session is replaced.
C6_OpenReturnsFreshId ==
    [][ \A s \in SessionIds :
            (Called("open", s) /\ last'.error = "OK")
                => ( /\ s \notin DOMAIN sessions
                     /\ Cardinality(DOMAIN sessions') = Cardinality(DOMAIN sessions) + 1 )
      ]_vars

\* the operations of C7, applied to a session
SessionOps ==
    {"set_service_certificate", "get_license_challenge", "parse_license", "close"}

\* C7: an operation on session A leaves every field of every other open
\* Session B as it was, and the outcome of an operation on B does not depend
\* on what was done to A: the handle a Remote parse_license of B sends is not
\* one that was issued for another open session.
C7_SessionsIndependent ==
    [][ \A a \in SessionIds :
            /\ \A op \in SessionOps :
                   Called(op, a)
                       => \A b \in DOMAIN sessions \ {a} :
                              b \in DOMAIN sessions' /\ sessions'[b] = sessions[b]
            /\ (IsRemote /\ Called("parse_license", a) /\ last'.device_reached)
                   => \A b \in DOMAIN sessions \ {a} :
                          last'.arg.session_id \notin sent[b]
      ]_vars

\* the frame half of C7 alone: it holds with both devices
SessionsFramed ==
    [][ \A a \in SessionIds : \A op \in SessionOps :
            Called(op, a)
                => \A b \in DOMAIN sessions \ {a} :
                       b \in DOMAIN sessions' /\ sessions'[b] = sessions[b]
      ]_vars

\* the Keys of the CONTENT containers of a license body, in encoded order
ContentKeysOfBody(body) ==
    LET RECURSIVE Collect(_)
        Collect(i) ==
            IF i > Len(body) THEN <<>>
            ELSE (IF body[i].Type = "CONTENT"
                  THEN <<Key(body[i].Id, "CONTENT", body[i].key, <<>>)>>
                  ELSE <<>>) \o Collect(i + 1)
    IN  Collect(1)

\* the response is the license service's answer, carrying body, to the
\* request stored on the session
Conformant(session, signed_license, body) ==
    /\ \A i \in 1..Len(body) : body[i].padded
    /\ \E k \in SessionKeys :
           signed_license =
               SignedLicenseFor(session.license_request.Msg, k, body, device.private_key)

\* C8: after open, get_license_challenge and one successful parse_license of
\* a conformant response (the session's Keys are those of that one call),
\* get_keys(content_only=true) returns the response's CONTENT key containers,
\* in encoded order, each with its kid and its decrypted key, and no key of
\* another type.
C8_ContentKeysInOrder ==
    \A s \in DOMAIN sessions : \A body \in LicenseBodies :
        ( /\ IsLocal
          /\ last.op = "get_keys" /\ last.session_id = s /\ last.error = "OK"
          /\ last.arg.content_only
          /\ Len(accepted[s]) = 1
          /\ Len(sessions[s].keys) = Len(body)
          /\ sessions[s].signed_license = accepted[s][1]
          /\ sessions[s].license_request # Unset
          /\ Conformant(sessions[s], accepted[s][1], body) )
            => last.ret.keys = ContentKeysOfBody(body)

\* get_keys(content_only=true) left out a key that is not a CONTENT key
C8_Witness ==
    /\ IsLocal
    /\ last.op = "get_keys" /\ last.error = "OK" /\ last.arg.content_only
    /\ Len(accepted[last.session_id]) = 1
    /\ Conformant(sessions[last.session_id], accepted[last.session_id][1], FirstBody)
    /\ Len(last.ret.keys) = 2
    /\ Len(sessions[last.session_id].keys) = 3

\* C9 as claimed: a certificate that decodes is stored, privacy_mode becomes
\* true and the call returns true; one that does not decode fails with
\* MalformedCertificate and leaves the stored certificate and privacy_mode as
\* they were.
C9_AnyDevice ==
    [][ \A s \in DOMAIN sessions :
            Called("set_service_certificate", s)
                => IF Decodes(last'.arg)
                   THEN /\ last'.error = "OK" /\ last'.ret = [bool |-> TRUE]
                        /\ sessions'[s].signed_device_certificate # None
                        /\ sessions'[s].privacy_mode
                   ELSE /\ last'.error = "MalformedCertificate"
                        /\ sessions'[s].signed_device_certificate =
                               sessions[s].signed_device_certificate
                        /\ sessions'[s].privacy_mode = sessions[s].privacy_mode
      ]_vars

\* C9, amended: that is the Local device; the Remote device decodes nothing
\* and stores every certificate, base64-encoded, sets privacy_mode and
\* returns true.
C9_LocalDecodesRemoteStores ==
    [][ \A s \in DOMAIN sessions :
            Called("set_service_certificate", s)
                => IF IsLocal /\ ~Decodes(last'.arg)
                   THEN /\ last'.error = "MalformedCertificate"
                        /\ sessions'[s] = sessions[s]
                   ELSE /\ last'.error = "OK" /\ last'.ret = [bool |-> TRUE]
                        /\ sessions'[s].privacy_mode
                        /\ sessions'[s].signed_device_certificate =
                               IF IsLocal
                               THEN [_DeviceCertificate |-> last'.arg.Msg._DeviceCertificate]
                               ELSE [base64 |-> last'.arg]
                        /\ sessions'[s] =
                               [sessions[s] EXCEPT
                                   !.signed_device_certificate =
                                       sessions'[s].signed_device_certificate,
                                   !.privacy_mode = TRUE]
      ]_vars

\* the Local device refused a certificate on a session that holds another one
C9_Witness ==
    /\ IsLocal
    /\ last.op = "set_service_certificate"
    /\ last.error = "MalformedCertificate"
    /\ last.session_id \in DOMAIN sessions
    /\ sessions[last.session_id].privacy_mode
    /\ sessions[last.session_id].signed_device_certificate # None

\* the Remote device stored a certificate that does not decode
C9_RemoteWitness ==
    /\ IsRemote
    /\ last.op = "set_service_certificate"
    /\ last.error = "OK"
    /\ ~Decodes(last.arg)
    /\ sessions[last.session_id].privacy_mode

\* C10: a challenge built by the Local device carries one form of client
\* identification: the encrypted one, made for the stored certificate's
\* service id and serial number, when privacy_mode is true, and the plaintext
\* blob when it is false; once a certificate is stored, no challenge of the
\* session carries the plaintext blob.
C10_OneClientIdForm ==
    [][ IsLocal =>
        \A s \in DOMAIN sessions :
            (Called("get_license_challenge", s) /\ last'.error = "OK")
                => LET challenge == last'.ret.bytes[1].pb.Msg
                       certificate == sessions[s].signed_device_certificate
                   IN  /\ (challenge.ClientId = None) # (challenge.EncryptedClientId = None)
                       /\ IF sessions[s].privacy_mode
                          THEN /\ challenge.ClientId = None
                               /\ challenge.EncryptedClientId.ServiceId =
                                      certificate._DeviceCertificate.ServiceId
                               /\ challenge.EncryptedClientId.ServiceCertificateSerialNumber =
                                      certificate._DeviceCertificate.SerialNumber
                          ELSE challenge.ClientId = device.client_id
                       /\ certificate # None => challenge.ClientId = None
      ]_vars

\* a challenge was built in privacy mode
C10_Witness ==
    /\ IsLocal
    /\ last.op = "get_license_challenge"
    /\ last.error = "OK"
    /\ sessions[last.session_id].privacy_mode
    /\ last.ret.bytes[1].pb.Msg.ClientId = None
    /\ last.ret.bytes[1].pb.Msg.EncryptedClientId.ServiceId = "service2"

\* C11: Session creation fails with InvalidInput when session_id or pssh is
\* empty, and an open whose Session creation fails (empty pssh, or a pssh that
\* cannot be normalized) adds no entry to the session map and changes none.
C11_FailedOpenAddsNothing ==
    [][ /\ \A args \in OpenArgs, raw \in BOOLEAN, s \in SessionIds \cup {None} :
               (s = None \/ args.pssh = EmptyPssh)
                   => Session(s, args.pssh, raw, args.offline).error = "InvalidInput"
        /\ (calls' # calls /\ last'.op = "open")
               => /\ last'.arg.pssh = EmptyPssh => last'.error = "InvalidInput"
                  /\ (last'.arg.pssh = MalformedPssh /\ ~last'.arg.raw)
                         => last'.error \notin {"OK", "InvalidInput"}
                  /\ last'.error # "OK" => sessions' = sessions
                  /\ last'.error = "OK" => last'.arg \in OpenInputs
      ]_vars

\* an open with an empty pssh failed while a session is open
C11_Witness ==
    /\ last.op = "open"
    /\ last.error = "InvalidInput"
    /\ last.arg.pssh = EmptyPssh
    /\ DOMAIN sessions # {}

\* an open with a pssh that is not a box failed while a session is open
C11_MalformedWitness ==
    /\ last.op = "open"
    /\ last.error = "ParseError"
    /\ DOMAIN sessions # {}

\* pss.new(public_key).verify(SHA1.new(data), signature)
pss_verify(public_key, data, signature) ==
    PublicKey(signature.pss) = public_key /\ signature.sha1 = data

\* C12: the bytes a Local get_license_challenge returns carry a signature
\* that is the device private key's RSA-PSS/SHA-1 signature over the
\* LicenseRequest message embedded in those bytes, as get_license_challenge
\* filled it in (no field is set after signing), and the request stored on
\* the session is the one signed and returned.
C12_SignatureOverEmbeddedRequest ==
    [][ IsLocal =>
        \A s \in DOMAIN sessions :
            (Called("get_license_challenge", s) /\ last'.error = "OK")
                => LET returned == last'.ret.bytes[1].pb
                   IN  /\ returned.Signature =
                              pss_sign(device.private_key, SerializeToString(returned.Msg))
                       /\ pss_verify(PublicKey(device.private_key),
                                     SerializeToString(returned.Msg), returned.Signature)
                       /\ returned.Msg =
                              LicenseRequestMsg(device, sessions[s], last'.arg.time,
                                  last'.arg.nonce, last'.arg.cid_aes_key, last'.arg.cid_iv)
                       /\ sessions'[s].license_request = returned
      ]_vars

\* a signed challenge was returned for a raw PSSH by the device that sends a
\* key control nonce
C12_Witness ==
    /\ IsLocal
    /\ last.op = "get_license_challenge"
    /\ last.error = "OK"
    /\ sessions[last.session_id].raw
    /\ last.ret.bytes[1].pb.Msg.KeyControlNonce # 0
    /\ last.ret.bytes[1].pb.Signature.sha1 =
           SerializeToString(sessions[last.session_id].license_request.Msg)

\* the outcomes of a Local parse_license that got past the unwrap
PastUnwrap == {"OK", "SignatureMismatch", "PaddingError"}

\* C13: a Local parse_license that unwraps session key K, on a session whose
\* stored request has the serialized message M, leaves
\* enc = CMAC(K, 01 "ENCRYPTION" 00 M 00 00 00 80) (one 16-byte block),
\* auth_1 = CMAC(K, 01 A) CMAC(K, 02 A) and auth_2 = CMAC(K, 03 A) CMAC(K, 04 A)
\* (two blocks each) with A = "AUTHENTICATION" 00 M 00 00 02 00.
C13_DerivedKeys ==
    [][ IsLocal =>
        \A s \in DOMAIN sessions :
            (Called("parse_license", s) /\ last'.error \in PastUnwrap)
                => LET K == OAEP_decrypt(device.private_key, last'.arg.SessionKey).plain
                       M == SerializeToString(sessions[s].license_request.Msg)
                       E == Bytes(<<69, 78, 67, 82, 89, 80, 84, 73, 79, 78, 0>>) \o M
                                \o Bytes(<<0, 0, 0, 128>>)
                       A == Bytes(<<65, 85, 84, 72, 69, 78, 84, 73, 67, 65, 84, 73, 79, 78, 0>>)
                                \o M \o Bytes(<<0, 0, 2, 0>>)
                   IN  /\ sessions'[s].session_key = [bytes |-> K]
                       /\ sessions'[s].derived_keys.enc.bytes =
                              << CMAC(K, <<Byte(1)>> \o E) >>
                       /\ sessions'[s].derived_keys.auth_1.bytes =
                              << CMAC(K, <<Byte(1)>> \o A), CMAC(K, <<Byte(2)>> \o A) >>
                       /\ sessions'[s].derived_keys.auth_2.bytes =
                              << CMAC(K, <<Byte(3)>> \o A), CMAC(K, <<Byte(4)>> \o A) >>
      ]_vars

\* keys were derived from the second request stored on a session
C13_Witness ==
    /\ IsLocal
    /\ last.op = "parse_license"
    /\ last.error = "OK"
    /\ Cardinality(sent[last.session_id]) = 2
    /\ Len(sessions[last.session_id].derived_keys.auth_2.bytes) = 2
    /\ sessions[last.session_id].derived_keys.auth_2.bytes[1].data[2] = Byte(65)

\* the keys the two flows derive from: a session key, and the keybox's
\* device AES key of the provisioning flow
DerivationKeys == SessionKeys \cup {"device_aes_key"}

\* the triple license parsing derives, as the provisioning flow returns its
\* triple
AsTriple(derived_keys) ==
    [ enc |-> derived_keys.enc.bytes,
      auth_1 |-> derived_keys.auth_1.bytes,
      auth_2 |-> derived_keys.auth_2.bytes ]

\* C14: generate_derived_keys(msg, key) of the provisioning flow and the
\* derivation of parse_license (get_auth_keys) return the same
\* (enc, auth_1, auth_2) for every key and message: for every request handed
\* out and every key, and in every parse_license that derives keys.
C14_SameDerivation ==
    [][ IsLocal =>
        /\ \A m \in RequestsInFlight', k \in DerivationKeys :
               AsTriple(DeriveKeys(k, [Msg |-> m])) =
                   generate_derived_keys(SerializeToString(m), k)
        /\ \A s \in DOMAIN sessions :
               (Called("parse_license", s) /\ last'.error \in PastUnwrap)
                   => AsTriple(sessions'[s].derived_keys) =
                          generate_derived_keys(
                              SerializeToString(sessions[s].license_request.Msg),
                              sessions'[s].session_key.bytes)
      ]_vars

\* a parse_license derived keys and then refused the response's signature
C14_Witness ==
    /\ IsLocal
    /\ last.op = "parse_license"
    /\ last.error = "SignatureMismatch"
    /\ sessions[last.session_id].session_key # None
    /\ sessions[last.session_id].derived_keys.enc.bytes =
           generate_derived_keys(
               SerializeToString(sessions[last.session_id].license_request.Msg),
               sessions[last.session_id].session_key.bytes).enc

\* the elements of a sequence
Range(seq) == { seq[i] : i \in 1..Len(seq) }

\* the names of the permission flags that are 1 in a container
FlagsSet(container) ==
    { f[1] : f \in { g \in Range(container._OperatorSessionKeyPermissions) : g[2] = 1 } }

\* C15: every Key a session holds has a non-empty kid and a non-empty
\* permission set only if its type is OPERATOR_SESSION; the j-th Key a Local
\* parse_license appends has the kid of the j-th KeyContainer of the response
\* when that has one and the name of its key type otherwise, the container's
\* type, and as permissions the flags that are 1 in the container when the
\* type is OPERATOR_SESSION and none otherwise.
C15_KidAndPermissions ==
    [][ \A s \in DOMAIN sessions' :
            /\ \A k \in Range(sessions'[s].keys) :
                   /\ k.kid # ""
                   /\ k.permissions # <<>> => k.type = "OPERATOR_SESSION"
            /\ (IsLocal /\ s \in DOMAIN sessions /\ Called("parse_license", s))
                   => LET before == Len(sessions[s].keys)
                          after == Len(sessions'[s].keys)
                      IN  /\ after >= before
                          /\ SubSeq(sessions'[s].keys, 1, before) = sessions[s].keys
                          /\ \A j \in 1..(after - before) :
                                 LET k == sessions'[s].keys[before + j]
                                     container == last'.arg.Msg.Key[j]
                                 IN  /\ k.kid = IF container.Id # "" THEN container.Id
                                                 ELSE container.Type
                                     /\ k.type = container.Type
                                     /\ Range(k.permissions) =
                                            IF container.Type = "OPERATOR_SESSION"
                                            THEN FlagsSet(container)
                                            ELSE {}
      ]_vars

\* a session holds an OPERATOR_SESSION Key with the two flags that are 1 of
\* its three, and a CONTENT Key without the flag its container carried
C15_Witness ==
    /\ IsLocal
    /\ last.op = "parse_license"
    /\ last.error = "OK"
    /\ \E k \in Range(sessions[last.session_id].keys) :
           k.type = "OPERATOR_SESSION" /\ k.permissions = <<"AllowEncrypt", "AllowSign">>
    /\ \E j \in 1..Len(last.arg.Msg.Key) :
           /\ last.arg.Msg.Key[j].Type = "CONTENT"
           /\ last.arg.Msg.Key[j]._OperatorSessionKeyPermissions # <<>>
           /\ sessions[last.session_id].keys[j].permissions = <<>>

\* a session holds a Key whose kid is the name of its type
C15_FallbackWitness ==
    /\ IsLocal
    /\ \E s \in DOMAIN sessions : \E k \in Range(sessions[s].keys) :
           k.kid = "SIGNING" /\ k.type = "SIGNING"

\* the Key objects the sessions hold: a Key object is in one list, at one
\* index, from the append that made it until its Session is dropped
KeyObjects ==
    UNION { { [ ref |-> <<s, i>>, kid |-> sessions[s].keys[i].kid,
                type |-> sessions[s].keys[i].type, key |-> sessions[s].keys[i].key,
                permissions |-> sessions[s].keys[i].permissions ]
              : i \in 1..Len(sessions[s].keys) }
            : s \in DOMAIN sessions }

C17_RequestStoredAnyDevice ==
    [][ \A s \in DOMAIN sessions :
            (Called("get_license_challenge", s) /\ last'.error = "OK")
                => /\ sessions'[s].license_request # Unset
                   /\ IsLocal =>
                          last'.ret.bytes = SerializeToString(sessions'[s].license_request)
      ]_vars

\* C18: a session is created without a session key, and its session_key
\* changes only in a Local parse_license whose response's wrapped key the
\* device private key unwraps, to the key unwrapped; open, close,
\* set_service_certificate, get_license_challenge and get_keys never set it,
\* and a parse_license that fails before or during the unwrap leaves it as it
\* was.
C18_SessionKeyOnlyFromUnwrap ==
    [][ \A s \in DOMAIN sessions' :
            IF Called("open", s) /\ last'.error = "OK"
            THEN sessions'[s].session_key = None
            ELSE /\ s \in DOMAIN sessions
                 /\ sessions'[s].session_key # sessions[s].session_key
                        => /\ IsLocal
                           /\ Called("parse_license", s)
                           /\ last'.error \in PastUnwrap
                           /\ OAEP_decrypt(device.private_key, last'.arg.SessionKey).ok
                           /\ sessions'[s].session_key =
                                  [bytes |-> OAEP_decrypt(device.private_key,
                                                          last'.arg.SessionKey).plain]
                 /\ (Called("parse_license", s) /\ last'.error \notin PastUnwrap)
                        => sessions'[s].session_key = sessions[s].session_key
      ]_vars

\* a parse_license failed in the unwrap, after the response was decoded, on
\* a session that has no session key
C18_Witness ==
    /\ IsLocal
    /\ last.op = "parse_license"
    /\ last.error = "UnwrapError"
    /\ sessions[last.session_id].signed_license = last.arg
    /\ sessions[last.session_id].session_key = None

\* a session holds the session key a parse_license unwrapped
C18_UnwrappedWitness ==
    /\ IsLocal
    /\ last.op = "parse_license"
    /\ last.error \in PastUnwrap
    /\ sessions[last.session_id].session_key = [bytes |-> "session_key1"]

\* the step is a get_license_challenge on session s that built a request:
\* a Local call that succeeded, or a Remote call that sent its parameters
BuiltRequest(s) ==
    /\ Called("get_license_challenge", s)
    /\ last'.device_reached
    /\ IsLocal => last'.error = "OK"

\* C19 as claimed: the Local request and the Remote GetChallenge parameters
\* alike carry the session's id as request id, request type NEW, protocol
\* version 2.1, and license type OFFLINE when the session was opened with
\* offline=true and STREAMING otherwise.
C19_RequestFieldsAnyDevice ==
    [][ \A s \in DOMAIN sessions :
            BuiltRequest(s)
                => LET license_type == IF sessions[s].offline THEN "OFFLINE"
                                                              ELSE "STREAMING"
                   IN  IF IsLocal
                       THEN LET Msg == last'.ret.bytes[1].pb.Msg
                            IN  /\ Msg.ContentId.CencId.RequestId = s
                                /\ Msg.Type = "NEW"
                                /\ Msg.ProtocolVersion = "VERSION_2_1"
                                /\ Msg.ContentId.CencId.LicenseType = license_type
                       ELSE /\ last'.arg.licensetype = license_type
                            /\ {"request_id", "type", "protocol_version"}
                                   \subseteq DOMAIN last'.arg
      ]_vars

\* C19, amended: every request the Local device builds carries the
\* session's id as request id, request type NEW, protocol version 2.1, and
\* license type OFFLINE when the session was opened with offline=true and
\* DEFAULT otherwise; the Remote GetChallenge parameters carry license type
\* OFFLINE when offline=true and STREAMING otherwise, with the pssh, the
\* certificate, the raw flag and the device profile, and neither a request
\* id nor a request type nor a protocol version.
C19_RequestFields ==
    [][ \A s \in DOMAIN sessions :
            BuiltRequest(s)
                => IF IsLocal
                   THEN LET Msg == last'.ret.bytes[1].pb.Msg
                        IN  /\ Msg.ContentId.CencId.RequestId = s
                            /\ Msg.Type = "NEW"
                            /\ Msg.ProtocolVersion = "VERSION_2_1"
                            /\ Msg.ContentId.CencId.LicenseType =
                                   IF sessions[s].offline THEN "OFFLINE" ELSE "DEFAULT"
                   ELSE /\ last'.arg.licensetype =
                               IF sessions[s].offline THEN "OFFLINE" ELSE "STREAMING"
                        /\ DOMAIN last'.arg = {"init", "cert", "raw", "licensetype", "device"}
                        /\ last'.arg.init = sessions[s].pssh
                        /\ last'.arg.raw = sessions[s].raw
      ]_vars

\* the Local device built a request for a session opened with offline=true
C19_Witness ==
    /\ IsLocal
    /\ last.op = "get_license_challenge"
    /\ last.error = "OK"
    /\ sessions[last.session_id].offline
    /\ last.ret.bytes[1].pb.Msg.ContentId.CencId.LicenseType = "OFFLINE"
    /\ last.ret.bytes[1].pb.Msg.ContentId.CencId.RequestId = last.session_id

\* the Remote device asked for a challenge for a session opened with
\* offline=false
C19_RemoteWitness ==
    /\ IsRemote
    /\ last.op = "get_license_challenge"
    /\ last.device_reached
    /\ ~sessions[last.session_id].offline
    /\ last.arg.licensetype = "STREAMING"

\* the operations of the Cdm's public API
ApiOps ==
    {"open", "close", "set_service_certificate", "get_license_challenge",
     "parse_license", "get_keys"}

\* C20: no call of open, close, set_service_certificate,
\* get_license_challenge, parse_license or get_keys changes the configured
\* device's type, security level, flags, private key and client
\* identification (Local) or its type, security level, system id, name,
\* host, key and device profile (Remote).
C20_DeviceReadOnly ==
    [][ (calls' # calls /\ last'.op \in ApiOps)
            => /\ device'.kind = device.kind
               /\ device'.type = device.type
               /\ device'.security_level = device.security_level
               /\ IF device.kind = "Local"
                  THEN /\ device'.flags = device.flags
                       /\ device'.private_key = device.private_key
                       /\ device'.client_id = device.client_id
                  ELSE /\ device'.system_id = device.system_id
                       /\ device'.name = device.name
                       /\ device'.host = device.host
                       /\ device'.key = device.key
                       /\ device'.device = device.device
               /\ device' \in Devices
      ]_vars

\* the Remote device holds a handle the API issued and is configured as it
\* was loaded
C20_Witness ==
    /\ IsRemote
    /\ api_session_id # None
    /\ last.op = "parse_license"
    /\ last.error = "OK"
    /\ device = RemoteDevice("CHROME")

\* the Local device has built a challenge and parsed a license and is
\* configured as it was loaded
C20_LocalWitness ==
    /\ IsLocal
    /\ last.op = "parse_license"
    /\ last.error = "OK"
    /\ device = LocalDevice("ANDROID", TRUE)

\* the device has no client identification, or no private key
LacksCredential(dev) ==
    dev.client_id = None \/ dev.client_id.ClientIdentification = "" \/ dev.private_key = ""

\* C21: Local get_license_challenge fails with MissingCredential when the
\* device has no client identification or no private key, and a
\* get_license_challenge that fails leaves the session's stored
\* license_request as it was.
C21_MissingCredential ==
    [][ IsLocal =>
        \A s \in DOMAIN sessions :
            Called("get_license_challenge", s)
                => /\ LacksCredential(device) => last'.error = "MissingCredential"
                   /\ last'.error # "OK"
                          => sessions'[s].license_request = sessions[s].license_request
      ]_vars

\* the handle the latest GetChallenge issued for session s returned: the API
\* numbers its handles in the order it issues them
HandleOf(s) ==
    CHOOSE h \in sent[s] : \A g \in sent[s] : g.handle <= h.handle

\* C22: with the Remote device, a parse_license for a session a challenge
\* was issued for sends, in its GetKeys RPC, the handle the GetChallenge RPC
\* issued for that session returned, whatever calls were made on other
\* sessions in between.
C22_HandleOfItsSession ==
    [][ IsRemote =>
        \A s \in DOMAIN sessions :
            (Called("parse_license", s) /\ last'.device_reached /\ sent[s] # {})
                => last'.arg.session_id = HandleOf(s)
      ]_vars

\* C23: when threads interleave open, close and a dispatching operation on
\* one Cdm, every close returns true or false and fails in no way (a close
\* that returns true has removed the id, so of several closers of one open
\* id one returns true), every dispatching call returns from the id's
\* Session or fails with UnknownSession, and an id leaves the session map
\* only in a close of that id that returns true.
C23_SessionMapSafe ==
    [][ /\ \A t \in Threads :
               (pc'[t] # pc[t] /\ pc'[t].at = "idle")
                   => /\ pc'[t].op = "close"
                         => /\ pc'[t].error = "OK"
                            /\ pc'[t].ret \in {[bool |-> TRUE], [bool |-> FALSE]}
                            /\ pc'[t].ret = [bool |-> TRUE]
                                   => /\ pc'[t].session_id \in DOMAIN sessions
                                      /\ pc'[t].session_id \notin DOMAIN sessions'
                      /\ pc'[t].op = "get_keys"
                            => pc'[t].error \in {"OK", "UnknownSession"}
        /\ \A s \in DOMAIN sessions \ DOMAIN sessions' :
               \E t \in Threads :
                   /\ pc'[t] # pc[t]
                   /\ pc'[t] = Returned("close", s, "OK", [bool |-> TRUE])
      ]_vars

\* the Keys a Local parse_license makes of a response's KeyContainers, in
\* encoded order: kid or type name, type, and the key the container wraps
KeysOfResponse(signed_license) ==
    [ j \in 1..Len(signed_license.Msg.Key) |->
        LET container == signed_license.Msg.Key[j]
        IN  [ kid |-> IF container.Id # "" THEN container.Id ELSE container.Type,
              type |-> container.Type,
              key |-> container.Key.plain ] ]

\* a Key without its permissions
KidTypeKey(k) == [kid |-> k.kid, type |-> k.type, key |-> k.key]

\* C24: a session's Key list only grows: after any call but the open that
\* makes the Session, the list before is a prefix of the list after; a
\* successful parse_license leaves the list before followed by the response's
\* keys in encoded order (again when the same response is parsed again); and
\* set_service_certificate, get_license_challenge and get_keys leave the list
\* as it was.
C24_KeysOnlyGrow ==
    [][ \A s \in DOMAIN sessions \cap DOMAIN sessions' :
            ~Called("open", s)
                => LET before == sessions[s].keys
                       after == sessions'[s].keys
                   IN  /\ Len(after) >= Len(before)
                       /\ SubSeq(after, 1, Len(before)) = before
                       /\ (IsLocal /\ Called("parse_license", s) /\ last'.error = "OK")
                              => /\ Len(after) = Len(before) + Len(last'.arg.Msg.Key)
                                 /\ [j \in 1..Len(last'.arg.Msg.Key) |->
                                        KidTypeKey(after[Len(before) + j])]
                                        = KeysOfResponse(last'.arg)
                       /\ (IsRemote /\ Called("parse_license", s) /\ last'.error = "OK")
                              => \E reply \in GetKeysReplies(last'.arg) :
                                     /\ reply.transport = "ok" /\ reply.status_code = 200
                                     /\ after = before \o RemoteKeys(reply.message.keys)
                       /\ \A op \in {"set_service_certificate", "get_license_challenge",
                                      "get_keys"} :
                              Called(op, s) => after = before
      ]_vars

\* one response was parsed twice and its keys are on the session twice
C24_Witness ==
    /\ IsLocal
    /\ last.op = "parse_license"
    /\ last.error = "OK"
    /\ Len(accepted[last.session_id]) = 2
    /\ accepted[last.session_id][1] = accepted[last.session_id][2]
    /\ Len(sessions[last.session_id].keys) = 2 * Len(last.arg.Msg.Key)
    /\ Len(last.arg.Msg.Key) = 3

\* the Remote device added the keys of a second reply after those of the first
C24_RemoteWitness ==
    /\ IsRemote
    /\ last.op = "parse_license"
    /\ last.error = "OK"
    /\ Len(sessions[last.session_id].keys) = 4

\* the response the license service makes for request message m
AnswersRequest(signed_license, m) ==
    \E k \in SessionKeys, body \in LicenseBodies :
        /\ \A i \in 1..Len(body) : body[i].padded
        /\ signed_license = SignedLicenseFor(m, k, body, device.private_key)

\* C25: a Local parse_license derives its keys from the request stored last:
\* when the call before it was a get_license_challenge of the session that
\* built request R2, a response made for another request R1 of the session
\* fails with SignatureMismatch and a response made for R2 is accepted.
C25_LatestRequest ==
    [][ IsLocal =>
        \A s \in DOMAIN sessions :
            ( /\ last.op = "get_license_challenge" /\ last.session_id = s
              /\ last.error = "OK"
              /\ Called("parse_license", s) )
                => LET R2 == last.ret.bytes[1].pb.Msg
                   IN  /\ \A R1 \in sent[s] \ {R2} :
                              AnswersRequest(last'.arg, R1)
                                  => /\ last'.error = "SignatureMismatch"
                                     /\ sessions'[s].keys = sessions[s].keys
                       /\ AnswersRequest(last'.arg, R2)
                              => /\ last'.error = "OK"
                                 /\ last'.ret = [bool |-> TRUE]
      ]_vars

\* a response made for the first of a session's two requests was refused
C25_Witness ==
    /\ IsLocal
    /\ last.op = "parse_license"
    /\ last.error = "SignatureMismatch"
    /\ Cardinality(sent[last.session_id]) = 2
    /\ \E R1 \in sent[last.session_id] :
           /\ R1 # sessions[last.session_id].license_request.Msg
           /\ AnswersRequest(last.arg, R1)

\* a response made for the second of a session's two requests was accepted
C25_AcceptedWitness ==
    /\ IsLocal
    /\ last.op = "parse_license"
    /\ last.error = "OK"
    /\ Cardinality(sent[last.session_id]) = 2
    /\ AnswersRequest(last.arg, sessions[last.session_id].license_request.Msg)

\* C26: a Local parse_license is all-or-nothing on the session's Key list:
\* a call that fails leaves the list as it was, so none of the keys of a
\* response with a KeyContainer that cannot be unpadded stay on the session.
C26_AllOrNothing ==
    [][ IsLocal =>
        \A s \in DOMAIN sessions :
            (Called("parse_license", s) /\ last'.error # "OK")
                => sessions'[s].keys = sessions[s].keys
      ]_vars

\* C27: a Local parse_license that fails with MalformedResponse or with
\* SignatureMismatch leaves the session's signed_license, session_key and
\* derived keys as they were before the call.
C27_FailureLeavesSession ==
    [][ IsLocal =>
        \A s \in DOMAIN sessions :
            ( /\ Called("parse_license", s)
              /\ last'.error \in {"MalformedResponse", "SignatureMismatch"} )
                => /\ sessions'[s].signed_license = sessions[s].signed_license
                   /\ sessions'[s].session_key = sessions[s].session_key
                   /\ sessions'[s].derived_keys = sessions[s].derived_keys
      ]_vars

\* C28: a Remote get_license_challenge or parse_license of an open session
\* issues exactly one RPC; a reply the transport did not bring makes it fail
\* with RemoteTransportError and a reply whose status is not 200 with
\* BadStatus, and a call that fails adds no Key and leaves the stored
\* remote handle as it was.
C28_OneRpcNoRetry ==
    [][ IsRemote =>
        \A s \in DOMAIN sessions :
            \A op \in {"get_license_challenge", "parse_license"} :
                Called(op, s)
                    => /\ last'.posts = 1
                       /\ (last'.reply.transport # "ok")
                              <=> (last'.error = "RemoteTransportError")
                       /\ (last'.reply.transport = "ok" /\ last'.reply.status_code # 200)
                              <=> (last'.error = "BadStatus")
                       /\ last'.error \in {"OK", "RemoteTransportError", "BadStatus"}
                       /\ last'.error # "OK"
                              => /\ sessions'[s].keys = sessions[s].keys
                                 /\ api_session_id' = api_session_id
                                 /\ last'.ret = None
      ]_vars

\* a GetKeys RPC of a session that has keys and a handle found no connection
C28_Witness ==
    /\ IsRemote
    /\ last.op = "parse_license"
    /\ last.device_reached
    /\ last.reply.transport = "ConnectionError"
    /\ last.error = "RemoteTransportError"
    /\ last.posts = 1
    /\ api_session_id # None
    /\ Len(sessions[last.session_id].keys) = 2

\* a GetChallenge RPC was answered with a status that is not 200 after an
\* earlier one had stored a handle
C28_BadStatusWitness ==
    /\ IsRemote
    /\ last.op = "get_license_challenge"
    /\ last.device_reached
    /\ last.reply.transport = "ok"
    /\ last.reply.status_code = 500
    /\ last.error = "BadStatus"
    /\ api_session_id # None

\* C29: a session's privacy_mode is false when the session is opened, changes
\* only to true and only in a set_service_certificate of the session that
\* succeeds, and a session in privacy mode has a certificate stored, so no
\* get_license_challenge fails for a missing certificate.
C29_PrivacyMode ==
    [][ \A s \in DOMAIN sessions' :
            /\ (Called("open", s) /\ last'.error = "OK")
                   => ~sessions'[s].privacy_mode
            /\ (s \in DOMAIN sessions /\ ~Called("open", s)
                    /\ sessions'[s].privacy_mode # sessions[s].privacy_mode)
                   => /\ sessions'[s].privacy_mode
                      /\ Called("set_service_certificate", s)
                      /\ last'.error = "OK"
            /\ sessions'[s].privacy_mode
                   => sessions'[s].signed_device_certificate # None
            /\ Called("get_license_challenge", s)
                   => last'.error # "MissingCertificate"
      ]_vars

\* a session in privacy mode built a request with an encrypted client id
C29_Witness ==
    /\ IsLocal
    /\ last.op = "get_license_challenge"
    /\ last.error = "OK"
    /\ sessions[last.session_id].privacy_mode
    /\ sessions[last.session_id].signed_device_certificate # None
    /\ sessions[last.session_id].license_request.Msg.EncryptedClientId # None

\* a certificate that does not decode was refused on a session in privacy
\* mode, which stays in privacy mode
C29_RefusedWitness ==
    /\ IsLocal
    /\ last.op = "set_service_certificate"
    /\ last.error = "MalformedCertificate"
    /\ sessions[last.session_id].privacy_mode

\* the server's answer is no error and of the expected kind, its signature
\* is the HMAC-SHA256 of its message under the derived auth_1 key and its
\* nonce is the nonce of the request
ResponseVerifies(p) ==
    /\ p.server_prov_response # None
    /\ "error" \notin DOMAIN p.server_prov_response
    /\ p.server_prov_response.kind = ExpectedKind
    /\ p.signed_response # None
    /\ p.signed_response.signature = HMAC(p.keys.auth_1, p.signed_response.message)
    /\ p.provisioning_response # None
    /\ p.provisioning_response.nonce = p.nonce

\* the checks of the provision command, in the order it makes them
ProvisionChecks == <<"error", "kind", "signature", "nonce">>

C30_NonceWitness ==
    /\ prv.at = "exit"
    /\ prv.failure = "NonceMismatch"
    /\ prv.passed = <<"error", "kind", "signature">>
    /\ prv.file = None

\* a response of the expected kind was refused for its signature
C30_SignatureWitness ==
    /\ prv.at = "exit"
    /\ prv.failure = "SignatureMismatch"
    /\ prv.signed_response # None
    /\ prv.device_rsa_key = None
    /\ prv.file = None

====
